---------------------------- MODULE Spec2Model ----------------------------
(***************************************************************************)
(* A model of the tree annotation and interaction engine of the            *)
(* phylogenetic tree viewer (PhylocanvasViewer.vue): the tooltip session,  *)
(* the renderer instance the component owns, and the style compiler.       *)
(*                                                                         *)
(* Strings the code looks into (node ids, metadata values, the search      *)
(* term) are sequences of one-character strings, so that split('|'),       *)
(* toLowerCase() and includes() are computed character by character.       *)
(* Field names and colours, which the code only compares, are TLA+ strings.*)
(***************************************************************************)
EXTENDS Integers, Sequences, FiniteSets, TLC

(***************************************************************************)
(* Bounds of the model.                                                    *)
(***************************************************************************)
\* renderTree invocations in one behaviour (mount + newick changes).
MaxRenders == 2
\* hide timers that may be pending at once.
MaxTimers == 1
\* pointer-down events accepted by one tooltip session.
MaxDrags == 1
\* changes of the visualisation props in one behaviour of StyleSpec.
MaxPropChanges == 1

(***************************************************************************)
(* Program constants.                                                      *)
(***************************************************************************)
tooltipWidth == 300
tooltipHeight == 200
\* the margin the clamp leaves (the literal 10 of nodeTooltipGlobalStyle).
edgeMargin == 10
\* the offset showNodeTooltip adds to x and subtracts from y.
clickOffset == 10
\* the canvas coordinate selectNode substitutes for a falsy node.x / node.y.
fallbackCoord == 200
highlightStrokeWidth == 2

(***************************************************************************)
(* Strings.                                                                *)
(***************************************************************************)
Bar == "|"

UpperToLower ==
    [A |-> "a", B |-> "b", C |-> "c", D |-> "d", E |-> "e", F |-> "f",
     G |-> "g", H |-> "h", I |-> "i", J |-> "j", K |-> "k", L |-> "l",
     M |-> "m", N |-> "n", O |-> "o", P |-> "p", Q |-> "q", R |-> "r",
     S |-> "s", T |-> "t", U |-> "u", V |-> "v", W |-> "w", X |-> "x",
     Y |-> "y", Z |-> "z"]

\* String.prototype.toLowerCase, character by character.
toLowerCase(s) ==
    [i \in 1..Len(s) |-> IF s[i] \in DOMAIN UpperToLower THEN UpperToLower[s[i]] ELSE s[i]]

\* String.prototype.includes: t occurs in s as a contiguous substring.
includes(s, t) ==
    \E i \in 0..(Len(s) - Len(t)) : \A j \in 1..Len(t) : s[i + j] = t[j]

\* The index of the first '|' of s, or Len(s) + 1 when there is none.
FirstBar(s) ==
    IF \E i \in 1..Len(s) : s[i] = Bar
    THEN CHOOSE i \in 1..Len(s) : s[i] = Bar /\ \A j \in 1..(i - 1) : s[j] # Bar
    ELSE Len(s) + 1

\* extractAccessionVersion that cuts at the last '|' instead of the first.
extractBeforeLastBar(nodeName) ==
    IF \E i \in 1..Len(nodeName) : nodeName[i] = Bar
    THEN SubSeq(nodeName, 1,
                (CHOOSE i \in 1..Len(nodeName) :
                    nodeName[i] = Bar /\ \A j \in (i + 1)..Len(nodeName) : nodeName[j] # Bar) - 1)
    ELSE nodeName

\* nodeName.split('|')[0]
extractAccessionVersion(nodeName) == SubSeq(nodeName, 1, FirstBar(nodeName) - 1)

\* labelParts.join('|')
RECURSIVE JoinBar(_)
JoinBar(parts) ==
    IF Len(parts) = 0 THEN <<>>
    ELSE IF Len(parts) = 1 THEN parts[1]
    ELSE parts[1] \o <<Bar>> \o JoinBar(Tail(parts))

(***************************************************************************)
(* Metadata records: functions from field names to strings.  A field a     *)
(* record lacks is undefined in JavaScript; NoRecord stands for null.      *)
(***************************************************************************)
NoRecord == <<>>

\* item[field], truthy: defined and not the empty string.
Truthy(item, field) == field \in DOMAIN item /\ item[field] # <<>>

\* props.metadata.find(item => item.accessionVersion === accessionVersion)
FindRecord(metadata, accessionVersion) ==
    LET hits == {i \in 1..Len(metadata) :
                    /\ "accessionVersion" \in DOMAIN metadata[i]
                    /\ metadata[i].accessionVersion = accessionVersion}
    IN IF hits = {} THEN NoRecord
       ELSE metadata[CHOOSE i \in hits : \A j \in hits : i <= j]

(***************************************************************************)
(* The inputs the behaviours draw from.                                    *)
(***************************************************************************)
sA1 == <<"A", "1">>
sA2 == <<"A", "2">>
sA3 == <<"A", "3">>
sUSA == <<"U", "S", "A">>
sCA == <<"C", "A">>

MetaA ==
    << [accessionVersion |-> sA1, SampleID |-> <<"S", "1">>, Country |-> sUSA],
       [accessionVersion |-> sA2, SampleID |-> <<>>, Country |-> sUSA],
       [accessionVersion |-> sA3, Country |-> sCA] >>

\* Two records share the accession A1.
MetaB ==
    << [accessionVersion |-> sA1, SampleID |-> <<"S", "9">>, Country |-> sCA],
       [accessionVersion |-> sA1, SampleID |-> <<"S", "1">>, Country |-> sUSA] >>

MetadataSets == {<<>>, MetaA, MetaB}

s2019 == <<"2", "0", "1", "9">>
s2021 == <<"2", "0", "2", "1">>

\* Field values that are strings of digits.
MetaY ==
    << [accessionVersion |-> sA1, Year |-> s2021, Country |-> sUSA],
       [accessionVersion |-> sA2, Year |-> s2019, Country |-> sCA],
       [accessionVersion |-> sA3, Year |-> s2021, Country |-> sUSA] >>

\* A record without accessionVersion, and one whose accessionVersion is the
\* empty string.
MetaE ==
    << [Country |-> sCA],
       [accessionVersion |-> <<>>, Country |-> sUSA],
       [accessionVersion |-> sA1, Country |-> sCA] >>

EngineMetadataSets == {<<>>, MetaA, MetaB, MetaY, MetaE}

\* Colour maps: sequences of entries, in the insertion order of the object.
ColorMaps ==
    { <<>>,
      << [value |-> sUSA, color |-> "hsl(120, 100%, 75%)"],
         [value |-> sCA, color |-> "hsl(40, 100%, 75%)"] >>,
      << [value |-> sCA, color |-> "hsl(40, 100%, 75%)"] >> }

\* selectedField: "" stands for null (the code tests it for truthiness only).
FieldChoices == {"", "Country", "SampleID"}

SearchTerms == {<<>>, <<"u", "s">>, <<"S", "1">>, <<"z">>}

LabelFieldChoices == {<<>>, <<"SampleID">>, <<"Country", "SampleID">>}

EngineFieldChoices == {"", "Country", "Year"}

\* The search terms and one that occurs in an accessionVersion only.
EngineSearchTerms == SearchTerms \cup {<<"a", "1">>}

EngineLabelFieldChoices == {<<>>, <<"SampleID">>, <<"SampleID", "Country">>}

(***************************************************************************)
(* Trees the renderer lays out, one per newick string.  A node is          *)
(* [id, isLeaf, children, x, y]; children are keys of the same tree.       *)
(***************************************************************************)
Trees ==
    [T1 |->
        [r |-> [id |-> <<"n", "0">>, isLeaf |-> FALSE, children |-> <<"i">>,
                x |-> 0, y |-> 300],
         i |-> [id |-> <<"n", "1">>, isLeaf |-> FALSE, children |-> <<"a", "b">>,
                x |-> 120, y |-> 100],
         a |-> [id |-> sA1, isLeaf |-> TRUE, children |-> <<>>,
                x |-> 300, y |-> 200],
         b |-> [id |-> <<"A", "2", "|", "S", "2">>, isLeaf |-> TRUE, children |-> <<>>,
                x |-> 665, y |-> 555]],
     T2 |->
        [r |-> [id |-> <<"n", "0">>, isLeaf |-> FALSE, children |-> <<"i", "b">>,
                x |-> 40, y |-> 0],
         i |-> [id |-> <<"n", "1">>, isLeaf |-> FALSE, children |-> <<"d">>,
                x |-> 900, y |-> 700],
         d |-> [id |-> <<"B", "7">>, isLeaf |-> TRUE, children |-> <<>>,
                x |-> 10, y |-> 20],
         b |-> [id |-> <<"A", "2", "|", "S", "2">>, isLeaf |-> TRUE, children |-> <<>>,
                x |-> 665, y |-> 555]],
     \* A tree with three annotated leaves below one internal node, a leaf
     \* the renderer gave no id, a leaf whose name starts with '|', and an
     \* internal node without children.
     T3 |->
        [r |-> [id |-> <<"n", "0">>, isLeaf |-> FALSE,
                children |-> <<"i", "e", "g", "h">>, x |-> 40, y |-> 300],
         i |-> [id |-> <<"n", "1">>, isLeaf |-> FALSE, children |-> <<"a", "b", "c">>,
                x |-> 120, y |-> 100],
         a |-> [id |-> sA1, isLeaf |-> TRUE, children |-> <<>>,
                x |-> 300, y |-> 60],
         b |-> [id |-> <<"A", "2", "|", "S", "2">>, isLeaf |-> TRUE, children |-> <<>>,
                x |-> 300, y |-> 120],
         c |-> [id |-> sA3, isLeaf |-> TRUE, children |-> <<>>,
                x |-> 300, y |-> 180],
         e |-> [id |-> <<>>, isLeaf |-> TRUE, children |-> <<>>,
                x |-> 300, y |-> 400],
         g |-> [id |-> <<"|", "x">>, isLeaf |-> TRUE, children |-> <<>>,
                x |-> 300, y |-> 500],
         h |-> [id |-> <<"n", "2">>, isLeaf |-> FALSE, children |-> <<>>,
                x |-> 200, y |-> 560]]]

\* The newick strings props.newick changes between.
Newicks == {"T1", "T2"}

\* treeCanvas.getBoundingClientRect()
CanvasRect == [left |-> 20, top |-> 50]

\* window.innerWidth / window.innerHeight
Viewports == {[W |-> 1000, H |-> 800], [W |-> 320, H |-> 220]}

\* clientX / clientY of the mouse events
PointerPositions == {[x |-> 400, y |-> 250], [x |-> 950, y |-> 780]}


(***************************************************************************)
(* PieAggregator.                                                          *)
(***************************************************************************)
\* The node object of tree t with key k, as the renderer hands it out.
NodeOf(t, k) == Trees[t][k]

RECURSIVE getDescendantLeaves(_, _)
RECURSIVE ChildLeaves(_, _)
\* leaves.push(...getDescendantLeaves(child)) for each child, in child order.
ChildLeaves(t, children) ==
    IF children = <<>> THEN <<>>
    ELSE getDescendantLeaves(t, Head(children)) \o ChildLeaves(t, Tail(children))

\* getDescendantLeaves that also returns the internal nodes it passes.
getDescendantLeavesWithInternal(t, k) ==
    <<NodeOf(t, k)>> \o ChildLeaves(t, NodeOf(t, k).children)

\* getDescendantLeaves(node)
getDescendantLeaves(t, k) ==
    IF NodeOf(t, k).isLeaf THEN <<NodeOf(t, k)>>
    ELSE ChildLeaves(t, NodeOf(t, k).children)

DigitChars == <<"0", "1", "2", "3", "4", "5", "6", "7", "8", "9">>

DigitValue(c) == (CHOOSE i \in 1..10 : DigitChars[i] = c) - 1

RECURSIVE NumValue(_)
NumValue(s) ==
    IF s = <<>> THEN 0
    ELSE 10 * NumValue(SubSeq(s, 1, Len(s) - 1)) + DigitValue(s[Len(s)])

\* A property key that is a canonical array index (a decimal numeral below
\* 2^32 - 1 without leading zero): Object.entries lists these first, in
\* ascending numeric order, before the other keys.  Numerals of up to nine
\* digits are all below that limit; longer keys do not occur in the inputs.
IsArrayIndex(s) ==
    /\ Len(s) > 0
    /\ Len(s) <= 9
    /\ \A i \in 1..Len(s) : \E d \in 1..10 : DigitChars[d] = s[i]
    /\ (Len(s) = 1 \/ s[1] # "0")

\* The position of value in the insertion-ordered counts, or 0.
CountIndex(counts, value) ==
    IF \E i \in 1..Len(counts) : counts[i].value = value
    THEN CHOOSE i \in 1..Len(counts) : counts[i].value = value
    ELSE 0

\* counts[value] = (counts[value] || 0) + 1
Increment(counts, value) ==
    LET i == CountIndex(counts, value)
    IN IF i = 0 THEN Append(counts, [value |-> value, count |-> 1])
       ELSE [counts EXCEPT ![i].count = @ + 1]

\* The descendants.forEach loop counting every leaf with a matched record,
\* under the empty value when the record has no value of the field.
RECURSIVE CountValuesEveryRecord(_, _, _)
CountValuesEveryRecord(p, descendants, counts) ==
    IF descendants = <<>> THEN counts
    ELSE LET leaf == Head(descendants)
             item == FindRecord(p.metadata, extractAccessionVersion(leaf.id))
         IN CountValuesEveryRecord(p, Tail(descendants),
                IF item # NoRecord /\ p.selectedField # ""
                THEN Increment(counts, IF Truthy(item, p.selectedField)
                                       THEN item[p.selectedField] ELSE <<>>)
                ELSE counts)

\* The descendants.forEach loop: the insertion-ordered counts.
RECURSIVE CountValues(_, _, _)
CountValues(p, descendants, counts) ==
    IF descendants = <<>> THEN counts
    ELSE LET leaf == Head(descendants)
             item == FindRecord(p.metadata, extractAccessionVersion(leaf.id))
         IN CountValues(p, Tail(descendants),
                IF item # NoRecord /\ p.selectedField # "" /\ Truthy(item, p.selectedField)
                THEN Increment(counts, item[p.selectedField])
                ELSE counts)

RECURSIVE SortedIndexKeys(_)
\* The entries whose keys are array indices, in ascending numeric order.
SortedIndexKeys(entries) ==
    IF entries = {} THEN <<>>
    ELSE LET m == CHOOSE e \in entries :
                    \A f \in entries : NumValue(e.value) <= NumValue(f.value)
         IN <<m>> \o SortedIndexKeys(entries \ {m})

\* Object.entries(counts)
ObjectEntries(counts) ==
    LET idx == {counts[i] : i \in {j \in 1..Len(counts) : IsArrayIndex(counts[j].value)}}
    IN SortedIndexKeys(idx) \o SelectSeq(counts, LAMBDA e : ~IsArrayIndex(e.value))

\* props.colorMap[value], or "" when the map has no such key.
ColorOf(colorMap, value) ==
    IF \E i \in 1..Len(colorMap) : colorMap[i].value = value
    THEN colorMap[CHOOSE i \in 1..Len(colorMap) : colorMap[i].value = value].color
    ELSE ""

RECURSIVE SumCounts(_)
SumCounts(entries) ==
    IF entries = <<>> THEN 0 ELSE Head(entries).count + SumCounts(Tail(entries))

\* The segments loop without currentAngle += angle.
RECURSIVE SegmentsNoAdvance(_, _, _, _)
SegmentsNoAdvance(p, entries, total, currentAngle) ==
    IF entries = <<>> THEN <<>>
    ELSE LET e == Head(entries)
             c == ColorOf(p.colorMap, e.value)
         IN << [startAngle |-> currentAngle,
                endAngle |-> currentAngle + e.count,
                color |-> IF c # "" THEN c ELSE "#cccccc",
                value |-> e.value,
                count |-> e.count,
                total |-> total] >>
            \o SegmentsNoAdvance(p, Tail(entries), total, currentAngle)

\* The segments loop.  Angles are kept exact, in units of 2*pi/total:
\* startAngle = start/total * 2*pi, proportion = count/total.
RECURSIVE Segments(_, _, _, _)
Segments(p, entries, total, currentAngle) ==
    IF entries = <<>> THEN <<>>
    ELSE LET e == Head(entries)
             c == ColorOf(p.colorMap, e.value)
         IN << [startAngle |-> currentAngle,
                endAngle |-> currentAngle + e.count,
                color |-> IF c # "" THEN c ELSE "#cccccc",
                value |-> e.value,
                count |-> e.count,
                total |-> total] >>
            \o Segments(p, Tail(entries), total, currentAngle + e.count)

calculatePieChartData(p, descendants) ==
    IF p.selectedField = "" \/ Len(p.metadata) = 0 THEN <<>>
    ELSE LET counts == CountValues(p, descendants, <<>>)
             total == SumCounts(counts)
         IN IF total = 0 THEN <<>>
            ELSE Segments(p, ObjectEntries(counts), total, 0)

\* createMetadataForPieCharts(): the accession keys of the object handed to
\* the renderer and, for each, the index of the record its entry was last
\* assigned from (forEach overwrites an earlier entry of the same key).
createMetadataForPieCharts(p) ==
    LET usable == {i \in 1..Len(p.metadata) :
                      /\ p.selectedField # ""
                      /\ Truthy(p.metadata[i], "accessionVersion")
                      /\ Truthy(p.metadata[i], p.selectedField)}
        keys == {p.metadata[i].accessionVersion : i \in usable}
    IN [k \in keys |->
            CHOOSE i \in usable :
                /\ p.metadata[i].accessionVersion = k
                /\ \A j \in usable : p.metadata[j].accessionVersion = k => j <= i]

(***************************************************************************)
(* LabelBuilder, SearchMatcher, colour lookup and StyleCompiler.           *)
(***************************************************************************)
\* The for loop over props.labelFields: the values pushed, in field order.
RECURSIVE LabelValues(_, _)
LabelValues(item, fields) ==
    IF fields = <<>> THEN <<>>
    ELSE (IF Truthy(item, Head(fields)) THEN <<item[Head(fields)]>> ELSE <<>>)
         \o LabelValues(item, Tail(fields))

\* buildNodeLabel that takes the label fields in alphabetical order.
buildNodeLabelSortedFields(p, nodeName) ==
    LET accessionVersion == extractAccessionVersion(nodeName)
        item == FindRecord(p.metadata, accessionVersion)
        sorted == SelectSeq(<<"Country", "SampleID", "Year">>,
                            LAMBDA f : \E i \in 1..Len(p.labelFields) : p.labelFields[i] = f)
    IN IF Len(p.metadata) = 0 THEN accessionVersion
       ELSE IF item = NoRecord THEN accessionVersion
       ELSE JoinBar(<<accessionVersion>> \o LabelValues(item, sorted))

buildNodeLabel(p, nodeName) ==
    LET accessionVersion == extractAccessionVersion(nodeName)
        item == FindRecord(p.metadata, accessionVersion)
    IN IF Len(p.metadata) = 0 THEN accessionVersion
       ELSE IF item = NoRecord THEN accessionVersion
       ELSE JoinBar(<<accessionVersion>> \o LabelValues(item, p.labelFields))

\* isNodeMatched that compares without lower-casing.
isNodeMatchedCaseSensitive(p, nodeName) ==
    LET item == FindRecord(p.metadata, extractAccessionVersion(nodeName))
    IN IF p.searchTerm = <<>> \/ Len(p.metadata) = 0 THEN FALSE
       ELSE IF item # NoRecord
            THEN \E f \in DOMAIN item : includes(item[f], p.searchTerm)
            ELSE FALSE

isNodeMatched(p, nodeName) ==
    LET item == FindRecord(p.metadata, extractAccessionVersion(nodeName))
    IN IF p.searchTerm = <<>> \/ Len(p.metadata) = 0 THEN FALSE
       ELSE IF item # NoRecord
            THEN \E f \in DOMAIN item :
                    includes(toLowerCase(item[f]), toLowerCase(p.searchTerm))
            ELSE FALSE

\* The colour of the node, or "" for null.
getNodeColor(p, nodeName) ==
    LET item == FindRecord(p.metadata, extractAccessionVersion(nodeName))
    IN IF p.selectedField = "" \/ Len(p.colorMap) = 0 \/ Len(p.metadata) = 0 THEN ""
       ELSE IF /\ item # NoRecord
               /\ Truthy(item, p.selectedField)
               /\ ColorOf(p.colorMap, item[p.selectedField]) # ""
            THEN ColorOf(p.colorMap, item[p.selectedField])
            ELSE ""

\* LeafStyle with the two branches swapped: the colour mapping is tried
\* first and the search highlight only for leaves without a colour.
LeafStyleColourFirst(p, id) ==
    LET label == [label |-> buildNodeLabel(p, id)]
        color == getNodeColor(p, id)
    IN IF color # "" THEN label @@ [fillColour |-> color]
       ELSE IF p.searchTerm # <<>> /\ isNodeMatched(p, id)
       THEN label @@ [fillColour |-> "#ff0000", strokeColour |-> "#cc0000",
                      strokeWidth |-> highlightStrokeWidth]
       ELSE label

\* The style object generateStyles builds for one leaf id.
LeafStyle(p, id) ==
    LET label == [label |-> buildNodeLabel(p, id)]
        color == getNodeColor(p, id)
    IN IF p.searchTerm # <<>> /\ isNodeMatched(p, id)
       THEN label @@ [fillColour |-> "#ff0000", strokeColour |-> "#cc0000",
                      strokeWidth |-> highlightStrokeWidth]
       ELSE IF color # "" THEN label @@ [fillColour |-> color]
       ELSE label

\* generateStyles without the test of leaf.id.
generateStylesEveryLeaf(p, leaves) ==
    [id \in {leaves[i].id : i \in 1..Len(leaves)} |-> LeafStyle(p, id)]

\* generateStyles(leaves): the map from leaf id to style; a leaf with an
\* empty id gets no entry, a later leaf overwrites an earlier one of the
\* same id (with the same style, a function of the id).
generateStyles(p, leaves) ==
    LET ids == {leaves[i].id : i \in {j \in 1..Len(leaves) : leaves[j].id # <<>>}}
    IN [id \in ids |-> LeafStyle(p, id)]

\* graph.leaves of the renderer: the leaves of the tree, in layout order.
GraphLeaves(t) == getDescendantLeaves(t, "r")

(***************************************************************************)
(* The state of the viewer component.                                      *)
(***************************************************************************)
VARIABLES
    mounted,            \* onMounted has run
    props,              \* newick, metadata, colorMap, selectedField, searchTerm, labelFields
    phylocanvasLoaded,  \* the module-level flag
    treeInstance,       \* the id of the renderer instance held, 0 for null
    instances,          \* every renderer instance constructed so far, by id
    pending,            \* renderTree invocations suspended at an await
    renders,            \* renderTree invocations so far
    error,              \* the error ref: "" for null
    nodeTooltip,        \* the tooltip session
    listening,          \* onDrag / stopDrag are registered on document
    timers,             \* pending setTimeout(hideNodeTooltip, 200) callbacks, oldest first
    propChanges,        \* changes of the visualisation props so far
    lastCalls,          \* history: the collapseNode calls of the last handler run
    drag,               \* history: the pointer's path since the last node click
    scaleBar,           \* scaleBarValue and scaleBarLength of the viewer
    panel,              \* the side panel: selectedField, selectedLabelFields
    preloader,          \* the fields of the PreloaderService singleton
    services,           \* every BiowasmService constructed so far, by id
    calls,              \* the calculateTree runs, each with its getBiowasmInstance call
    builds,             \* the FASTA texts mounted for the tree builder, oldest first
    page                \* the app's own refs, its loaders and the document

viewerVars == <<mounted, props, phylocanvasLoaded, treeInstance, instances, pending,
                renders, error>>
tooltipVars == <<nodeTooltip, listening, timers, drag>>
serviceVars == <<panel, preloader, services, calls, builds>>
appVars == <<panel, preloader, services, calls, builds, page>>
vars == <<mounted, props, phylocanvasLoaded, treeInstance, instances, pending, renders,
          error, nodeTooltip, listening, timers, propChanges, lastCalls, drag,
          scaleBar, panel, preloader, services, calls, builds, page>>

NoNode == [inst |-> 0, key |-> ""]
NoPointer == [x |-> 0, y |-> 0]

\* pieChartData: null, as distinct from an empty array of segments.
NoPie == [present |-> FALSE, segments |-> <<>>]

\* const nodeTooltip = ref({...})
InitialTooltip ==
    [visible |-> FALSE, x |-> 0, y |-> 0, node |-> NoNode, nodeType |-> "",
     isInternal |-> FALSE, isCollapsed |-> FALSE, metadata |-> NoRecord,
     pieChartData |-> NoPie, descendantCount |-> 0, isDragging |-> FALSE,
     dragStartX |-> 0, dragStartY |-> 0, dragOffsetX |-> 0, dragOffsetY |-> 0]

\* The tree a node reference belongs to, and the node object behind it.
TreeOfNode(n) == instances[n.inst].tree
NodeObject(n) == NodeOf(TreeOfNode(n), n.key)
\* node.collapsed, as the renderer reports it at the time of the call.
NodeCollapsed(n) == n.key \in instances[n.inst].collapsed

\* Where the session was anchored by the last node click (clickX, clickY),
\* the pointer displacement of the drags completed since (sumX, sumY), the
\* pointer at the last pointer-down and now, whether it moved since, and
\* whether every pointer-down so far came while no drag was active.
InitialDrag ==
    [clickX |-> 0, clickY |-> 0, sumX |-> 0, sumY |-> 0, down |-> NoPointer,
     now |-> NoPointer, moved |-> FALSE, clean |-> TRUE, count |-> 0]

(***************************************************************************)
(* TooltipSession.                                                         *)
(***************************************************************************)
\* nodeTooltipGlobalStyle without the isDragging test: always clamped.
nodeTooltipGlobalStyleAlwaysClamped(tt, vp) ==
    LET x0 == tt.x + tt.dragOffsetX
        y0 == tt.y + tt.dragOffsetY
        x1 == IF x0 + tooltipWidth > vp.W THEN vp.W - tooltipWidth - edgeMargin ELSE x0
        y1 == IF y0 + tooltipHeight > vp.H THEN vp.H - tooltipHeight - edgeMargin ELSE y0
        Max(a, b) == IF a >= b THEN a ELSE b
    IN [left |-> Max(edgeMargin, x1), top |-> Max(edgeMargin, y1)]

\* nodeTooltipGlobalStyle: the left / top of the tooltip in viewport vp.
nodeTooltipGlobalStyle(tt, vp) ==
    LET x0 == tt.x + tt.dragOffsetX
        y0 == tt.y + tt.dragOffsetY
        x1 == IF x0 + tooltipWidth > vp.W THEN vp.W - tooltipWidth - edgeMargin ELSE x0
        y1 == IF y0 + tooltipHeight > vp.H THEN vp.H - tooltipHeight - edgeMargin ELSE y0
        Max(a, b) == IF a >= b THEN a ELSE b
    IN IF ~tt.isDragging
       THEN [left |-> Max(edgeMargin, x1), top |-> Max(edgeMargin, y1)]
       ELSE [left |-> x0, top |-> y0]

\* showNodeTooltip whose leaf branch leaves pieChartData and descendantCount
\* as the previous node set them.
showNodeTooltipStalePie(tt, n, canvasX, canvasY) ==
    LET node == NodeObject(n)
        globalX == CanvasRect.left + canvasX + clickOffset
        globalY == CanvasRect.top + canvasY - clickOffset
        shown == [tt EXCEPT !.visible = TRUE, !.x = globalX, !.y = globalY,
                            !.node = n, !.isInternal = ~node.isLeaf]
        descendants == getDescendantLeaves(TreeOfNode(n), n.key)
    IN IF node.isLeaf
       THEN [shown EXCEPT
                !.nodeType = "Leaf Node",
                !.isCollapsed = FALSE,
                !.metadata = FindRecord(props.metadata, extractAccessionVersion(node.id))]
       ELSE [shown EXCEPT
                !.nodeType = "Internal Node",
                !.isCollapsed = NodeCollapsed(n),
                !.metadata = NoRecord,
                !.descendantCount = Len(descendants),
                !.pieChartData =
                    LET pieData == calculatePieChartData(props, descendants)
                    IN IF Len(pieData) > 0
                       THEN [present |-> TRUE, segments |-> pieData]
                       ELSE NoPie]

\* showNodeTooltip(node, canvasX, canvasY): the session after the call.
showNodeTooltip(tt, n, canvasX, canvasY) ==
    LET node == NodeObject(n)
        globalX == CanvasRect.left + canvasX + clickOffset
        globalY == CanvasRect.top + canvasY - clickOffset
        shown == [tt EXCEPT !.visible = TRUE, !.x = globalX, !.y = globalY,
                            !.node = n, !.isInternal = ~node.isLeaf]
        descendants == getDescendantLeaves(TreeOfNode(n), n.key)
    IN IF node.isLeaf
       THEN [shown EXCEPT
                !.nodeType = "Leaf Node",
                !.isCollapsed = FALSE,
                !.metadata = FindRecord(props.metadata, extractAccessionVersion(node.id)),
                !.pieChartData = NoPie,
                !.descendantCount = 0]
       ELSE [shown EXCEPT
                !.nodeType = "Internal Node",
                !.isCollapsed = NodeCollapsed(n),
                !.metadata = NoRecord,
                !.descendantCount = Len(descendants),
                !.pieChartData =
                    LET pieData == calculatePieChartData(props, descendants)
                    IN IF Len(pieData) > 0
                       THEN [present |-> TRUE, segments |-> pieData]
                       ELSE NoPie]

\* hideNodeTooltip without the reset of the drag state.
hideNodeTooltipKeepDrag(tt) ==
    [tt EXCEPT !.visible = FALSE, !.node = NoNode]

\* hideNodeTooltip(): the session after the call.
hideNodeTooltip(tt) ==
    [tt EXCEPT !.visible = FALSE, !.node = NoNode, !.isDragging = FALSE,
               !.dragOffsetX = 0, !.dragOffsetY = 0]

\* startDrag(event): the session after the call.
startDrag(tt, p) ==
    [tt EXCEPT !.isDragging = TRUE, !.dragStartX = p.x, !.dragStartY = p.y]

\* onDrag that moves the offset whether or not a drag is active.
onDragUnguarded(tt, p) ==
    [tt EXCEPT !.dragOffsetX = p.x - tt.dragStartX,
               !.dragOffsetY = p.y - tt.dragStartY]

\* onDrag(event): the session after the call.
onDrag(tt, p) ==
    IF ~tt.isDragging THEN tt
    ELSE [tt EXCEPT !.dragOffsetX = p.x - tt.dragStartX,
                    !.dragOffsetY = p.y - tt.dragStartY]

\* stopDrag that resets the offset without adding it to the base position.
stopDragDropOffset(tt) ==
    IF ~tt.isDragging THEN tt
    ELSE [tt EXCEPT !.isDragging = FALSE, !.dragOffsetX = 0, !.dragOffsetY = 0]

\* stopDrag(): the session after the call.
stopDrag(tt) ==
    IF ~tt.isDragging THEN tt
    ELSE [tt EXCEPT !.x = tt.x + tt.dragOffsetX, !.y = tt.y + tt.dragOffsetY,
                    !.isDragging = FALSE, !.dragOffsetX = 0, !.dragOffsetY = 0]

(***************************************************************************)
(* The renderer instance: renderTree and applyNodeStyling.                 *)
(***************************************************************************)
\* new PhylocanvasGL(treeCanvas, treeProps): a fresh instance laying out
\* the current newick.  canCollapse: the instance has a collapseNode method
\* (the component probes it with typeof before every call).  handlers: the
\* listeners registered with on('zoom', ...), and as many with on('pan', ...).
NewInstance(canCollapse) ==
    [tree |-> props.newick, destroyed |-> FALSE, collapsed |-> {},
     canCollapse |-> canCollapse, styled |-> FALSE, styles |-> <<>>, handlers |-> 0]

\* Microtasks (the continuation after await nextTick()) run before any
\* event, timer or load callback.
TickPending == \E i \in 1..Len(pending) : pending[i] = "tick"

RemoveAt(q, i) == SubSeq(q, 1, i - 1) \o SubSeq(q, i + 1, Len(q))

\* treeInstance.value.destroy(); treeInstance.value = null.  A destroyed
\* instance keeps nothing of the renderer's own state.
DestroyCurrent(insts) ==
    IF treeInstance # 0
    THEN [insts EXCEPT ![treeInstance] =
            [tree |-> @.tree, destroyed |-> TRUE, collapsed |-> {},
             canCollapse |-> FALSE, styled |-> FALSE, styles |-> <<>>,
             handlers |-> 0]]
    ELSE insts

\* renderTree from "Creating PhylocanvasGL instance" to await nextTick(),
\* or to the catch block when the constructor throws (outcome "throw").
Construct(insts, current, queue, outcome) ==
    IF outcome = "throw"
    THEN /\ instances' = insts
         /\ treeInstance' = current
         /\ pending' = queue
         /\ error' = "Failed to render tree"
    ELSE /\ instances' = Append(insts, NewInstance(outcome = "ok"))
         /\ treeInstance' = Len(insts) + 1
         /\ pending' = Append(queue, "tick")
         /\ error' = ""

ConstructOutcomes == {"ok", "noCollapse", "throw"}

\* renderTree() up to its first await.
renderTree(outcome) ==
    IF props'.newick = ""
    THEN UNCHANGED <<treeInstance, instances, pending, error, renders>>
    ELSE /\ renders' = renders + 1
         /\ IF ~phylocanvasLoaded
            THEN /\ instances' = DestroyCurrent(instances)
                 /\ treeInstance' = 0
                 /\ pending' = Append(pending, "load")
                 /\ error' = ""
            ELSE Construct(DestroyCurrent(instances), 0, pending, outcome)

\* applyNodeStyling(): setProps({styles: generateStyles(graph.leaves)}) on
\* the instance held, then on('zoom', ...) and on('pan', ...), each of which
\* adds a listener.
applyNodeStyling(insts, current) ==
    IF current = 0 THEN insts
    ELSE [insts EXCEPT ![current].styled = TRUE,
                       ![current].styles =
                            generateStyles(props', GraphLeaves(insts[current].tree)),
                       ![current].handlers = @ + 1]

\* treeInstance.collapseNode(id): the renderer toggles the node of that id.
collapseNode(insts, current, id) ==
    LET tree == Trees[insts[current].tree]
        keys == {k \in DOMAIN tree : tree[k].id = id /\ ~tree[k].isLeaf}
    IN [insts EXCEPT ![current].collapsed = (@ \ keys) \cup (keys \ @)]

(***************************************************************************)
(* The scale bar.  A JavaScript number is NaN, Infinity or an exact        *)
(* fraction n/d in lowest terms with d > 0.                                *)
(***************************************************************************)
RECURSIVE GCD(_, _)
GCD(a, b) == IF b = 0 THEN a ELSE GCD(b, a % b)

Abs(a) == IF a < 0 THEN 0 - a ELSE a

Num(n, d) ==
    LET g == GCD(Abs(n), d)
    IN [kind |-> "number", n |-> n \div g, d |-> d \div g]

NaN == [kind |-> "NaN", n |-> 0, d |-> 1]
Infinity == [kind |-> "Infinity", n |-> 1, d |-> 1]

IsPositive(a) == a.kind = "number" /\ a.n > 0

\* a * b
Times(a, b) ==
    IF a.kind = "NaN" \/ b.kind = "NaN" THEN NaN
    ELSE IF a.kind = "Infinity"
    THEN (IF b.kind = "number" /\ b.n = 0 THEN NaN ELSE Infinity)
    ELSE IF b.kind = "Infinity"
    THEN (IF a.n = 0 THEN NaN ELSE Infinity)
    ELSE Num(a.n * b.n, a.d * b.d)

\* a <= b; a comparison with NaN is false
LessOrEqual(a, b) ==
    /\ a.kind = "number"
    /\ b.kind = "number"
    /\ a.n * b.d <= b.n * a.d

RECURSIVE PowerOf(_, _)
PowerOf(base, e) == IF e = 0 THEN 1 ELSE base * PowerOf(base, e - 1)

\* Math.pow(base, e) for an integer e
Pow(base, e) == IF e >= 0 THEN Num(PowerOf(base, e), 1) ELSE Num(1, PowerOf(base, 0 - e))

targetPixelLength == 100
\* scaleBarValue.value = 0.1; scaleBarLength.value = 100 of the catch block
fallbackScaleBar == [value |-> Num(1, 10), length |-> Num(100, 1)]

\* const scaleBarLength = ref(100); const scaleBarValue = ref(0.1)
InitialScaleBar == [value |-> Num(1, 10), length |-> Num(100, 1)]

\* Math.floor(Math.log10(a)) of a positive fraction a
RECURSIVE FloorLog10(_)
FloorLog10(a) ==
    IF LessOrEqual(Num(10, 1), a) THEN FloorLog10(Times(a, Num(1, 10))) + 1
    ELSE IF ~LessOrEqual(Num(1, 1), a) THEN FloorLog10(Times(a, Num(10, 1))) - 1
    ELSE 0

\* The element of a one-element set: an intermediate result, computed once.
Only(S) == CHOOSE x \in S : TRUE

\* Always ten times the magnitude.
niceDistanceAlwaysTen(actualDistance) ==
    Times(Num(10, 1), Pow(10, FloorLog10(actualDistance)))

\* The if-chain on normalized = actualDistance / magnitude.
roundUp(normalized, magnitude) ==
    IF LessOrEqual(normalized, Num(1, 1)) THEN magnitude
    ELSE IF LessOrEqual(normalized, Num(2, 1)) THEN Times(Num(2, 1), magnitude)
    ELSE IF LessOrEqual(normalized, Num(5, 1)) THEN Times(Num(5, 1), magnitude)
    ELSE Times(Num(10, 1), magnitude)

\* The rounding of a positive distance to 1, 2, 5 or 10 times a power of ten.
niceDistance(actualDistance) ==
    Only({ roundUp(Times(actualDistance, Num(magnitude.d, magnitude.n)), magnitude) :
            magnitude \in {Pow(10, FloorLog10(actualDistance))} })

\* What the renderer answers to getBranchScale() and getZoom(): the method
\* is absent, it throws, it returns undefined, or it returns a number.
Answer(how) == [how |-> how, n |-> 0, d |-> 1]
Returns(n, d) == [how |-> "number", n |-> n, d |-> d]

BranchScaleAnswers ==
    {Answer("absent"), Answer("throws"), Answer("undefined"), Returns(0, 1),
     Returns(-1, 1), Returns(1, 1), Returns(3, 1), Returns(1, 2), Returns(250, 1),
     Returns(1, 40), Returns(7, 1), Returns(9, 1), Returns(11, 1), Returns(13, 1),
     Returns(1, 3), Returns(6, 1)}
ZoomAnswers ==
    {Answer("absent"), Answer("throws"), Answer("undefined")}
        \cup {Returns(z, 1) : z \in {-2, -1, 0, 1, 3}}

Readings == [branchScale : BranchScaleAnswers, zoom : ZoomAnswers]

\* The renderer at its defaults: branch scale 1, zoom 0.
UnitReading == [branchScale |-> Returns(1, 1), zoom |-> Returns(0, 1)]
UnitReadings == {UnitReading}

\* The number an answer stands for in arithmetic: undefined converts to NaN.
AnswerValue(answer, default) ==
    IF answer.how = "absent" THEN default
    ELSE IF answer.how = "undefined" THEN NaN
    ELSE Num(answer.n, answer.d)

\* branchScale * Math.pow(2, zoom)
currentScaleOf(reading) ==
    LET branchScale == AnswerValue(reading.branchScale, Num(1, 1))
        zoom == AnswerValue(reading.zoom, Num(0, 1))
    IN IF zoom.kind = "NaN" THEN NaN ELSE Times(branchScale, Pow(2, zoom.n))

\* targetPixelLength / currentScale
actualDistanceOf(currentScale) ==
    IF currentScale.kind = "NaN" THEN NaN
    ELSE IF currentScale.n = 0 THEN Infinity
    ELSE IF currentScale.n < 0
    THEN Num(0 - targetPixelLength * currentScale.d, 0 - currentScale.n)
    ELSE Num(targetPixelLength * currentScale.d, currentScale.n)

\* niceDistance and niceDistance * currentScale for a scale that was computed.
scaleBarAt(currentScale, actualDistance) ==
    Only({ [value |-> nice, length |-> Times(nice, currentScale)] :
            nice \in { IF actualDistance.kind = "NaN" THEN NaN
                       ELSE IF actualDistance.kind = "Infinity" THEN Infinity
                       ELSE IF actualDistance.n < 0 THEN NaN
                       ELSE niceDistance(actualDistance) } })

\* calculateScaleBar(): the scale bar after the call.
calculateScaleBar(bar, current, reading) ==
    IF current = 0 THEN bar
    ELSE IF reading.branchScale.how = "throws" \/ reading.zoom.how = "throws"
    THEN fallbackScaleBar
    ELSE Only({ scaleBarAt(currentScale, Only({actualDistanceOf(currentScale)})) :
                    currentScale \in {currentScaleOf(reading)} })

(***************************************************************************)
(* The application around the viewer: the side panel, the preloader        *)
(* service and the tree builder, as they are when the page has loaded.     *)
(***************************************************************************)
\* selectedField = ref(null), selectedLabelFields = ref(['SampleID']); unchecked
\* is history: the fields the user unchecked and has not checked since.
InitialPanel ==
    [selectedField |-> "", selectedLabelFields |-> <<"SampleID">>, unchecked |-> {}]

\* The fields of PreloaderService, 0 for a null instance; biowasm and
\* phylocanvas are the positions of preloadBiowasm and preloadPhylocanvasGL,
\* preloadService the service preloadBiowasm constructed, preloadCalls and
\* runs count the preloadAll calls and the executePreload runs.
InitialPreloader ==
    [biowasmInstance |-> 0, biowasmInitialized |-> FALSE, phylocanvasLoaded |-> FALSE,
     loadingPromise |-> "null", biowasm |-> "idle", phylocanvas |-> "idle",
     preloadService |-> 0, preloadCalls |-> 0, runs |-> 0]

\* The refs of the app and of its loaders before anything was loaded:
\* fastaContent = '' and newickTree = '' (a tree is the FASTA text it was
\* built from), no fetch of a loader in flight, no PhyloTree component
\* (phyloTree = 0; components counts the ones mounted so far) and so none of
\* its refs isLoading and error.  runs: the position of every calculateTree
\* run and the component it belongs to; queue: the requests posted to the
\* workers of the services and not answered yet; files: input.fasta in the
\* file system of each service.  zoomRuns is history: the calculateScaleBar
\* calls of the last zoom or pan event.  library: window.phylocanvas has
\* PhylocanvasGL; scripts: the script tags appended to the document; requests:
\* the promises loadPhylocanvasGL and preloadPhylocanvasGL returned, and
\* loadIds the ones the waiting renderTree calls await, in the order of their
\* "load" entries in pending.  isPreloading and debugInfo are the refs of the
\* app, app the position of its onMounted hook, hides is history: the
\* assignments isPreloading.value = false so far.
InitialPage ==
    [metadataLoads |-> 0, zoomRuns |-> 0, fastaContent |-> <<>>, newickTree |-> <<>>,
     fastaLoads |-> 0, phyloTree |-> 0, components |-> 0, isLoading |-> FALSE,
     treeError |-> "", runs |-> <<>>, queue |-> <<>>, files |-> <<>>,
     library |-> FALSE, scripts |-> <<>>, requests |-> <<>>, loadIds |-> <<>>,
     isPreloading |-> TRUE, app |-> "created", debugInfo |-> "", hides |-> 0]

AppInit ==
    /\ panel = InitialPanel
    /\ preloader = InitialPreloader
    /\ services = <<>>
    /\ calls = <<>>
    /\ builds = <<>>
    /\ page = InitialPage

(***************************************************************************)
(* Operations of the viewer.                                               *)
(***************************************************************************)
DefaultProps(metadata, colorMap, selectedField, searchTerm, labelFields) ==
    [newick |-> "T1", metadata |-> metadata, colorMap |-> colorMap,
     selectedField |-> selectedField, searchTerm |-> searchTerm,
     labelFields |-> labelFields]

\* The inputs the tooltip behaviours start from.
TooltipProps ==
    { DefaultProps(MetaA, <<>>, "", <<>>, <<"SampleID">>),
      DefaultProps(MetaA, CHOOSE m \in ColorMaps : Len(m) = 1, "Country", <<>>,
                   <<"SampleID">>) }

Init ==
    /\ mounted = FALSE
    /\ props \in TooltipProps
    /\ phylocanvasLoaded = FALSE
    /\ treeInstance = 0
    /\ instances = <<>>
    /\ pending = <<>>
    /\ renders = 0
    /\ error = ""
    /\ nodeTooltip = InitialTooltip
    /\ listening = FALSE
    /\ timers = <<>>
    /\ propChanges = 0
    /\ lastCalls = <<>>
    /\ drag = InitialDrag
    /\ scaleBar = InitialScaleBar
    /\ AppInit

\* onMounted(() => renderTree()), but for the flag phylocanvasLoaded and the
\* document, which loadPhylocanvasGL may change.
onMounted(outcome) ==
    /\ ~mounted
    /\ mounted' = TRUE
    /\ props' = props
    /\ renderTree(outcome)
    /\ lastCalls' = <<>>
    /\ UNCHANGED <<nodeTooltip, listening, timers, propChanges, drag>>
    /\ UNCHANGED <<scaleBar, serviceVars>>

\* onMounted with the load of the library left to LoadSettled.
Mount(outcome) ==
    /\ onMounted(outcome)
    /\ UNCHANGED <<phylocanvasLoaded, page>>

\* watch(() => props.newick, () => renderTree()), but for the flag
\* phylocanvasLoaded and the document.
watchNewick(t, outcome) ==
    /\ mounted
    /\ ~TickPending
    /\ renders < MaxRenders
    /\ t # props.newick
    /\ props' = [props EXCEPT !.newick = t]
    /\ renderTree(outcome)
    /\ lastCalls' = <<>>
    /\ UNCHANGED <<mounted, nodeTooltip, listening, timers, propChanges, drag>>
    /\ UNCHANGED <<scaleBar, serviceVars>>

\* The watcher of props.newick with the load of the library left to
\* LoadSettled.
NewickChange(t, outcome) ==
    /\ watchNewick(t, outcome)
    /\ UNCHANGED <<phylocanvasLoaded, page>>

\* The continuation of renderTree after await loadPhylocanvasGL(): the load
\* resolved (loaded, and loadPhylocanvasGL has set the flag) or rejected.
afterLoad(i, loaded, outcome) ==
    /\ i \in 1..Len(pending)
    /\ pending[i] = "load"
    /\ ~TickPending
    /\ IF loaded
       THEN /\ phylocanvasLoaded' = TRUE
            /\ Construct(instances, treeInstance, RemoveAt(pending, i), outcome)
       ELSE /\ pending' = RemoveAt(pending, i)
            /\ error' = "Failed to render tree"
            /\ UNCHANGED <<phylocanvasLoaded, instances, treeInstance>>
    /\ lastCalls' = <<>>
    /\ UNCHANGED <<mounted, props, renders, nodeTooltip, listening, timers,
                   propChanges, drag>>
    /\ UNCHANGED <<scaleBar, serviceVars>>

\* The load of the library settles and renderTree goes on, the document
\* left aside.
LoadSettled(i, loaded, outcome) ==
    /\ afterLoad(i, loaded, outcome)
    /\ UNCHANGED page

\* The continuation of renderTree after await nextTick(): applyNodeStyling(),
\* then calculateScaleBar() with what the renderer answers.
ResumeTick(reading) ==
    /\ TickPending
    /\ LET i == CHOOSE j \in 1..Len(pending) :
                    pending[j] = "tick" /\ \A h \in 1..(j - 1) : pending[h] # "tick"
       IN pending' = RemoveAt(pending, i)
    /\ props' = props
    /\ instances' = applyNodeStyling(instances, treeInstance)
    /\ scaleBar' = calculateScaleBar(scaleBar, treeInstance, reading)
    /\ lastCalls' = <<>>
    /\ UNCHANGED <<mounted, phylocanvasLoaded, treeInstance, renders, error,
                   nodeTooltip, listening, timers, propChanges, drag, appVars>>

\* A click the renderer reports can only come from the instance on screen.
CanClick ==
    /\ mounted
    /\ ~TickPending
    /\ treeInstance # 0
    /\ ~instances[treeInstance].destroyed

\* The selectNode override, called with a node: node.x || 200, node.y || 200.
SelectNode(k) ==
    /\ CanClick
    /\ k \in DOMAIN Trees[instances[treeInstance].tree]
    /\ LET n == [inst |-> treeInstance, key |-> k]
           node == NodeObject(n)
           x == IF node.x # 0 THEN node.x ELSE fallbackCoord
           y == IF node.y # 0 THEN node.y ELSE fallbackCoord
       IN /\ nodeTooltip' = showNodeTooltip(nodeTooltip, n, x, y)
          /\ lastCalls' = <<>>
    /\ timers' = [i \in 1..Len(timers) |-> [stale |-> TRUE]]
    /\ drag' = [drag EXCEPT !.clickX = nodeTooltip'.x, !.clickY = nodeTooltip'.y,
                            !.sumX = 0, !.sumY = 0, !.count = 0]
    /\ UNCHANGED <<viewerVars, listening, propChanges>>
    /\ UNCHANGED <<scaleBar, appVars>>

\* The selectNode override, called without a node (a click on the background).
SelectBackground ==
    /\ CanClick
    /\ nodeTooltip' = hideNodeTooltip(nodeTooltip)
    /\ lastCalls' = <<>>
    /\ drag' = InitialDrag
    /\ UNCHANGED <<viewerVars, listening, timers, propChanges>>
    /\ UNCHANGED <<scaleBar, appVars>>

\* @click="hideNodeTooltip" of the close button, rendered while visible.
Close ==
    /\ mounted
    /\ ~TickPending
    /\ nodeTooltip.visible
    /\ nodeTooltip' = hideNodeTooltip(nodeTooltip)
    /\ lastCalls' = <<>>
    /\ drag' = InitialDrag
    /\ UNCHANGED <<viewerVars, listening, timers, propChanges>>
    /\ UNCHANGED <<scaleBar, appVars>>

\* @mousedown="startDrag" of the header, rendered while visible.
StartDrag(p) ==
    /\ mounted
    /\ ~TickPending
    /\ nodeTooltip.visible
    /\ drag.count < MaxDrags
    /\ nodeTooltip' = startDrag(nodeTooltip, p)
    /\ listening' = TRUE
    /\ lastCalls' = <<>>
    /\ drag' = [drag EXCEPT !.down = p, !.now = p, !.moved = FALSE, !.count = @ + 1,
                            !.clean = drag.clean /\ ~nodeTooltip.isDragging]
    /\ UNCHANGED <<viewerVars, timers, propChanges>>
    /\ UNCHANGED <<scaleBar, appVars>>

\* mousemove on document, while the listener is registered.
OnDrag(p) ==
    /\ listening
    /\ ~TickPending
    /\ nodeTooltip' = onDrag(nodeTooltip, p)
    /\ lastCalls' = <<>>
    /\ drag' = IF nodeTooltip.isDragging
               THEN [drag EXCEPT !.now = p, !.moved = TRUE]
               ELSE drag
    /\ UNCHANGED <<viewerVars, listening, timers, propChanges>>
    /\ UNCHANGED <<scaleBar, appVars>>

\* mouseup on document, while the listener is registered.
StopDrag ==
    /\ listening
    /\ ~TickPending
    /\ nodeTooltip' = stopDrag(nodeTooltip)
    /\ listening' = IF nodeTooltip.isDragging THEN FALSE ELSE listening
    /\ lastCalls' = <<>>
    /\ drag' = IF nodeTooltip.isDragging
               THEN [drag EXCEPT !.sumX = @ + drag.now.x - drag.down.x,
                                 !.sumY = @ + drag.now.y - drag.down.y,
                                 !.down = NoPointer, !.now = NoPointer,
                                 !.moved = FALSE]
               ELSE drag
    /\ UNCHANGED <<viewerVars, timers, propChanges>>
    /\ UNCHANGED <<scaleBar, appVars>>

\* toggleNodeCollapse that hides the tooltip at once instead of after the
\* delay.
ToggleNodeCollapseHideAtOnce ==
    /\ mounted
    /\ ~TickPending
    /\ Len(timers) < MaxTimers
    /\ IF nodeTooltip.node = NoNode \/ NodeObject(nodeTooltip.node).isLeaf
       THEN /\ lastCalls' = <<>>
            /\ UNCHANGED <<instances, nodeTooltip, timers>>
       ELSE IF treeInstance # 0 /\ instances[treeInstance].canCollapse
       THEN /\ instances' = collapseNode(instances, treeInstance,
                                         NodeObject(nodeTooltip.node).id)
            /\ nodeTooltip' = hideNodeTooltip([nodeTooltip EXCEPT !.isCollapsed = ~@])
            /\ timers' = Append(timers, [stale |-> FALSE])
            /\ lastCalls' = <<NodeObject(nodeTooltip.node).id>>
       ELSE /\ lastCalls' = <<>>
            /\ UNCHANGED <<instances, nodeTooltip, timers>>
    /\ UNCHANGED <<mounted, props, phylocanvasLoaded, treeInstance, pending, renders,
                   error, listening, propChanges, drag>>
    /\ UNCHANGED <<scaleBar, appVars>>

\* toggleNodeCollapse(): the collapse button, or any other caller.
ToggleNodeCollapse ==
    /\ mounted
    /\ ~TickPending
    /\ Len(timers) < MaxTimers
    /\ IF nodeTooltip.node = NoNode \/ NodeObject(nodeTooltip.node).isLeaf
       THEN /\ lastCalls' = <<>>
            /\ UNCHANGED <<instances, nodeTooltip, timers>>
       ELSE IF treeInstance # 0 /\ instances[treeInstance].canCollapse
       THEN /\ instances' = collapseNode(instances, treeInstance,
                                         NodeObject(nodeTooltip.node).id)
            /\ nodeTooltip' = [nodeTooltip EXCEPT !.isCollapsed = ~@]
            /\ timers' = Append(timers, [stale |-> FALSE])
            /\ lastCalls' = <<NodeObject(nodeTooltip.node).id>>
       ELSE /\ lastCalls' = <<>>
            /\ UNCHANGED <<instances, nodeTooltip, timers>>
    /\ UNCHANGED <<mounted, props, phylocanvasLoaded, treeInstance, pending, renders,
                   error, listening, propChanges, drag>>
    /\ UNCHANGED <<scaleBar, appVars>>

\* The setTimeout callback of toggleNodeCollapse, 200 ms after the toggle.
TimerFire ==
    /\ timers # <<>>
    /\ ~TickPending
    /\ timers' = Tail(timers)
    /\ nodeTooltip' = hideNodeTooltip(nodeTooltip)
    /\ lastCalls' = <<>>
    /\ drag' = InitialDrag
    /\ UNCHANGED <<viewerVars, listening, propChanges>>
    /\ UNCHANGED <<scaleBar, appVars>>

Next ==
    \/ \E o \in ConstructOutcomes : Mount(o)
    \/ \E t \in Newicks, o \in ConstructOutcomes : NewickChange(t, o)
    \/ \E i \in 1..Len(pending), l \in BOOLEAN, o \in ConstructOutcomes : LoadSettled(i, l, o)
    \/ \E q \in UnitReadings : ResumeTick(q)
    \/ \E k \in {"r", "i", "a", "b", "d"} : SelectNode(k)
    \/ SelectBackground
    \/ Close
    \/ \E p \in PointerPositions : StartDrag(p)
    \/ \E p \in PointerPositions : OnDrag(p)
    \/ StopDrag
    \/ ToggleNodeCollapse
    \/ TimerFire

\* The whole viewer: the tooltip session and the renderer instances that
\* come and go with the newick prop.
Spec == Init /\ [][Next]_vars

\* The tooltip session over the renderer instance of one tree topology.
SessionNext ==
    \/ \E o \in ConstructOutcomes : Mount(o)
    \/ \E i \in 1..Len(pending), l \in BOOLEAN, o \in ConstructOutcomes : LoadSettled(i, l, o)
    \/ \E q \in UnitReadings : ResumeTick(q)
    \/ \E k \in {"r", "i", "a", "b"} : SelectNode(k)
    \/ SelectBackground
    \/ Close
    \/ \E p \in PointerPositions : StartDrag(p)
    \/ \E p \in PointerPositions : OnDrag(p)
    \/ StopDrag
    \/ ToggleNodeCollapse
    \/ TimerFire

SessionSpec == Init /\ [][SessionNext]_vars

\* Timers and microtasks of the page run: a pending setTimeout callback
\* fires, a continuation after await nextTick() resumes.
SessionLiveSpec == SessionSpec /\ WF_vars(TimerFire) /\ WF_vars(ResumeTick(UnitReading))

(***************************************************************************)
(* The visualisation props and their watcher.                              *)
(***************************************************************************)
\* The callback of watch([colorMap, selectedField, searchTerm, labelFields]):
\* the instances after it ran.
watchVisualProps(insts, current) ==
    IF current # 0 THEN applyNodeStyling(insts, current) ELSE insts

\* The parent changes one of the props; the watcher, if any, runs.
PropsStep(newProps, watched) ==
    /\ ~TickPending
    /\ propChanges < MaxPropChanges
    /\ newProps # props
    /\ props' = newProps
    /\ propChanges' = propChanges + 1
    /\ instances' = IF watched THEN watchVisualProps(instances, treeInstance)
                    ELSE instances
    /\ UNCHANGED <<mounted, phylocanvasLoaded, treeInstance, pending, renders, error,
                   tooltipVars, lastCalls>>
    /\ UNCHANGED <<scaleBar, appVars>>

\* handleSearchTerm of the parent
SetSearchTerm(t) == PropsStep([props EXCEPT !.searchTerm = t], TRUE)

\* handleSelectedField and handleColorMap of the parent, emitted together
SetSelectedField(f, cm) ==
    PropsStep([props EXCEPT !.selectedField = f, !.colorMap = cm], TRUE)

\* handleLabelFields of the parent
SetLabelFields(fields) == PropsStep([props EXCEPT !.labelFields = fields], TRUE)

\* metadataFields of the side panel: Object.keys(props.metadata[0]).
metadataFields(m) == IF Len(m) > 0 THEN DOMAIN m[1] ELSE {}

\* The side panel's watcher on props.metadata resets a selected field the new
\* metadata does not have (handleFieldChange emits null and an empty map).
FieldIsReset(p, m) == p.selectedField # "" /\ p.selectedField \notin metadataFields(m)

\* selectedLabelFields after the side panel's watchers on props.metadata ran
\* for a non-empty metadata set: SampleID is put in when it is available and
\* not selected, and fields the metadata does not have are filtered out.
PanelLabelFields(selected, m) ==
    LET available == metadataFields(m) \ {"accessionVersion"}
        hasSampleID == "SampleID" \in available
        withSample == IF hasSampleID /\ \A i \in 1..Len(selected) : selected[i] # "SampleID"
                      THEN <<"SampleID">> ELSE selected
    IN SelectSeq(withSample, LAMBDA f : f \in available)

\* handleMetadata of the parent, with the events the side panel emits in
\* reaction.  The viewer has no watcher on props.metadata: its styles are
\* recomputed only when the side panel emits a field reset or, for a
\* non-empty metadata set, its label fields.
SetMetadata(m) ==
    PropsStep([props EXCEPT
                 !.metadata = m,
                 !.selectedField = IF FieldIsReset(props, m) THEN "" ELSE @,
                 !.colorMap = IF FieldIsReset(props, m) THEN <<>> ELSE @,
                 !.labelFields = IF Len(m) > 0 THEN PanelLabelFields(@, m) ELSE @],
              FieldIsReset(props, m) \/ Len(m) > 0)

StyleProps ==
    { DefaultProps(m, cm, f, t, lf) :
        m \in MetadataSets, cm \in ColorMaps, f \in FieldChoices, t \in SearchTerms,
        lf \in LabelFieldChoices }

StyleInit ==
    /\ mounted = FALSE
    /\ props \in StyleProps
    /\ phylocanvasLoaded = FALSE
    /\ treeInstance = 0
    /\ instances = <<>>
    /\ pending = <<>>
    /\ renders = 0
    /\ error = ""
    /\ nodeTooltip = InitialTooltip
    /\ listening = FALSE
    /\ timers = <<>>
    /\ propChanges = 0
    /\ lastCalls = <<>>
    /\ drag = InitialDrag
    /\ scaleBar = InitialScaleBar
    /\ AppInit

StyleNext ==
    \/ \E o \in ConstructOutcomes : Mount(o)
    \/ \E i \in 1..Len(pending), l \in BOOLEAN, o \in ConstructOutcomes : LoadSettled(i, l, o)
    \/ \E q \in UnitReadings : ResumeTick(q)
    \/ \E t \in SearchTerms : SetSearchTerm(t)
    \/ \E f \in FieldChoices, cm \in ColorMaps : SetSelectedField(f, cm)
    \/ \E lf \in LabelFieldChoices : SetLabelFields(lf)
    \/ \E m \in MetadataSets : SetMetadata(m)
    \/ \E t \in Newicks, o \in ConstructOutcomes : NewickChange(t, o)

\* The style compiler under every combination of the visualisation props.
StyleSpec == StyleInit /\ [][StyleNext]_vars

(***************************************************************************)
(* The annotation engine on the tree T3: styles are compiled at mount and  *)
(* node clicks resolve tooltips and pie data, for every combination of     *)
(* metadata, colour map, selected field, search term and label fields.     *)
(***************************************************************************)
EngineProps ==
    { [DefaultProps(m, cm, f, t, lf) EXCEPT !.newick = "T3"] :
        m \in EngineMetadataSets, cm \in ColorMaps, f \in EngineFieldChoices,
        t \in EngineSearchTerms, lf \in EngineLabelFieldChoices }

EngineInit ==
    /\ mounted = FALSE
    /\ props \in EngineProps
    /\ phylocanvasLoaded = FALSE
    /\ treeInstance = 0
    /\ instances = <<>>
    /\ pending = <<>>
    /\ renders = 0
    /\ error = ""
    /\ nodeTooltip = InitialTooltip
    /\ listening = FALSE
    /\ timers = <<>>
    /\ propChanges = 0
    /\ lastCalls = <<>>
    /\ drag = InitialDrag
    /\ scaleBar = InitialScaleBar
    /\ AppInit

EngineNext ==
    \/ \E o \in ConstructOutcomes : Mount(o)
    \/ \E i \in 1..Len(pending), l \in BOOLEAN, o \in ConstructOutcomes : LoadSettled(i, l, o)
    \/ \E q \in UnitReadings : ResumeTick(q)
    \/ \E k \in DOMAIN Trees.T3 : SelectNode(k)
    \/ SelectBackground

EngineSpec == EngineInit /\ [][EngineNext]_vars

(***************************************************************************)
(* The side panel's colours.  generateColor keeps its hash in a JavaScript *)
(* number, which grows past 32 bits: a hash is q * 2^32 + a * 2^16 + b     *)
(* with -2^15 <= a < 2^15 and 0 <= b < 2^16.                               *)
(***************************************************************************)
UpperLetters ==
    <<"A", "B", "C", "D", "E", "F", "G", "H", "I", "J", "K", "L", "M",
      "N", "O", "P", "Q", "R", "S", "T", "U", "V", "W", "X", "Y", "Z">>

\* str.charCodeAt(i) of the characters the inputs are written in.
charCodeAt(c) ==
    IF \E i \in 1..26 : UpperLetters[i] = c
    THEN 64 + (CHOOSE i \in 1..26 : UpperLetters[i] = c)
    ELSE IF \E i \in 1..26 : UpperToLower[UpperLetters[i]] = c
    THEN 96 + (CHOOSE i \in 1..26 : UpperToLower[UpperLetters[i]] = c)
    ELSE IF \E i \in 1..10 : DigitChars[i] = c
    THEN 47 + (CHOOSE i \in 1..10 : DigitChars[i] = c)
    ELSE 124

Half == 65536

\* x reduced to the signed 16-bit range
SignedHalf(x) == ((x + (Half \div 2)) % Half) - (Half \div 2)

\* top * 2^32 + mid * 2^16 + low in the normal form
Normal(top, mid, low) ==
    LET b == low % Half
        m == mid + ((low - b) \div Half)
        a == SignedHalf(m)
    IN [q |-> top + ((m - a) \div Half), a |-> a, b |-> b]

\* ToInt32(hash) << 5
ShiftLeft5(hash) == [Normal(0, 32 * hash.a, 32 * hash.b) EXCEPT !.q = 0]

\* str.charCodeAt(i) + ((hash << 5) - hash), in floating point that is exact
\* below 2^53
hashStep(hash, code) ==
    LET s == ShiftLeft5(hash)
    IN Normal(0 - hash.q, s.a - hash.a, code + s.b - hash.b)

\* The same step with the result wrapped to 32 bits.
hashStepWrapped(hash, code) == [hashStep(hash, code) EXCEPT !.q = 0]

RECURSIVE hashOf(_)
\* The hash after the loop over str.
hashOf(str) ==
    IF str = <<>> THEN [q |-> 0, a |-> 0, b |-> 0]
    ELSE hashStep(hashOf(SubSeq(str, 1, Len(str) - 1)), charCodeAt(str[Len(str)]))

\* hash % 360: the remainder has the sign of the hash.
Remainder360(hash) ==
    LET m == (hash.q * 256 + hash.a * 16 + hash.b) % 360
        negative == hash.q < 0 \/ (hash.q = 0 /\ hash.a < 0)
    IN IF negative /\ m # 0 THEN m - 360 ELSE m

\* generateColor(str): hsl(hash % 360, 100%, 75%)
generateColor(str) ==
    [hue |-> Remainder360(hashOf(str)), saturation |-> 100, lightness |-> 75]

RECURSIVE InsertColors(_, _, _)
\* props.metadata.forEach(item => { if (value && !newColorMap[value]) ... })
InsertColors(metadata, field, newColorMap) ==
    IF metadata = <<>> THEN newColorMap
    ELSE LET item == Head(metadata)
         IN InsertColors(Tail(metadata), field,
                IF Truthy(item, field) /\ CountIndex(newColorMap, item[field]) = 0
                THEN Append(newColorMap, [value |-> item[field],
                                          color |-> generateColor(item[field])])
                ELSE newColorMap)

\* The map handleFieldChange emits, in the key order of the object.
newColorMapOf(metadata, field) ==
    IF field = "" THEN <<>> ELSE ObjectEntries(InsertColors(metadata, field, <<>>))

\* availableLabelFields of the side panel
availableLabelFields(m) == metadataFields(m) \ {"accessionVersion"}

\* Country names of seven and more characters, and three columns to label by.
MetaL ==
    << [accessionVersion |-> sA1, SampleID |-> <<"S", "1">>,
        Country |-> <<"G", "e", "r", "m", "a", "n", "y">>, Year |-> s2021],
       [accessionVersion |-> sA2, SampleID |-> <<"S", "2">>, Country |-> sUSA,
        Year |-> s2019],
       [accessionVersion |-> sA3, SampleID |-> <<"S", "3">>,
        Country |-> <<"N", "e", "t", "h", "e", "r", "l", "a", "n", "d", "s">>,
        Year |-> s2021],
       [accessionVersion |-> <<"A", "4">>, SampleID |-> <<>>,
        Country |-> <<"G", "e", "r", "m", "a", "n", "y">>, Year |-> s2019] >>

PanelMetadataSets == {<<>>, MetaA, MetaY, MetaL}

(***************************************************************************)
(* The side panel and the app's handlers of its events.                    *)
(***************************************************************************)
\* The app after the side panel changed its own state and emitted; the
\* viewer's watcher runs when a visualisation prop was assigned.
PanelEmits(newProps, newPanel, watched) ==
    /\ ~TickPending
    /\ props' = newProps
    /\ panel' = newPanel
    /\ instances' = IF watched THEN watchVisualProps(instances, treeInstance)
                    ELSE instances
    /\ UNCHANGED <<mounted, phylocanvasLoaded, treeInstance, pending, renders, error,
                   tooltipVars, propChanges, lastCalls, scaleBar, preloader, services,
                   calls, builds>>

\* The same, by an event that leaves the loaders as they are.
PanelStep(newProps, newPanel, watched) ==
    /\ PanelEmits(newProps, newPanel, watched)
    /\ UNCHANGED page

\* handleMetadata(m) of the app, then the side panel's two watchers on
\* props.metadata and props.metadata.length.
handleMetadata(m) ==
    LET reset == panel.selectedField # "" /\ panel.selectedField \notin metadataFields(m)
        selected == IF Len(m) > 0 THEN PanelLabelFields(panel.selectedLabelFields, m)
                    ELSE panel.selectedLabelFields
    IN PanelEmits([props EXCEPT
                    !.metadata = m,
                    !.selectedField = IF reset THEN "" ELSE @,
                    !.colorMap = IF reset THEN newColorMapOf(m, "") ELSE @,
                    !.labelFields = IF Len(m) > 0 THEN selected ELSE @],
                 [panel EXCEPT
                    !.selectedField = IF reset THEN "" ELSE @,
                    !.selectedLabelFields = selected],
                 reset \/ Len(m) > 0)

\* The metadata loader emits 'update:metadata' with m.
LoadMetadata(m) ==
    /\ handleMetadata(m)
    /\ UNCHANGED page

\* The "Color by" select changes: handleFieldChange.
ChooseField(field) ==
    /\ field \in {""} \cup metadataFields(props.metadata)
    /\ field # panel.selectedField
    /\ PanelStep([props EXCEPT !.selectedField = field,
                               !.colorMap = newColorMapOf(props.metadata, field)],
                 [panel EXCEPT !.selectedField = field],
                 TRUE)

\* handleLabelFieldChange that puts a newly checked field first.
handleLabelFieldChangePrepend(old, field, checked) ==
    IF checked
    THEN (IF \E i \in 1..Len(old) : old[i] = field THEN old ELSE <<field>> \o old)
    ELSE SelectSeq(old, LAMBDA f : f # field)

\* handleLabelFieldChange(field, checked): selectedLabelFields after it ran.
handleLabelFieldChange(old, field, checked) ==
    IF checked
    THEN (IF \E i \in 1..Len(old) : old[i] = field THEN old ELSE Append(old, field))
    ELSE SelectSeq(old, LAMBDA f : f # field)

\* A label-field checkbox changes: handleLabelFieldChange emits a copy of the
\* selection, handleLabelFields of the app stores a copy of what it got.
ToggleLabelField(field, checked) ==
    /\ field \in availableLabelFields(props.metadata)
    /\ LET selected == handleLabelFieldChange(panel.selectedLabelFields, field, checked)
       IN PanelStep([props EXCEPT !.labelFields = selected],
                    [panel EXCEPT !.selectedLabelFields = selected,
                                  !.unchecked = IF checked THEN @ \ {field}
                                                ELSE @ \cup {field}],
                    TRUE)

\* The refs of the app before anything was loaded.
PanelInit ==
    /\ mounted = FALSE
    /\ props = DefaultProps(<<>>, <<>>, "", <<>>, <<"SampleID">>)
    /\ phylocanvasLoaded = FALSE
    /\ treeInstance = 0
    /\ instances = <<>>
    /\ pending = <<>>
    /\ renders = 0
    /\ error = ""
    /\ nodeTooltip = InitialTooltip
    /\ listening = FALSE
    /\ timers = <<>>
    /\ propChanges = 0
    /\ lastCalls = <<>>
    /\ drag = InitialDrag
    /\ scaleBar = InitialScaleBar
    /\ AppInit

PanelNext ==
    \/ \E m \in PanelMetadataSets : LoadMetadata(m)
    \/ \E f \in {"", "accessionVersion", "SampleID", "Country", "Year"} : ChooseField(f)
    \/ \E f \in {"SampleID", "Country", "Year"}, c \in BOOLEAN : ToggleLabelField(f, c)

\* The side panel over metadata loads, field selections and checkbox toggles.
PanelSpec == PanelInit /\ [][PanelNext]_vars

(***************************************************************************)
(* The metadata loader: every load publishes an empty set, fetches, and    *)
(* publishes the parsed records; loads may overlap.                        *)
(***************************************************************************)
\* Fetches of the metadata loader in flight at one time.
MaxMetadataLoads == 2

\* handleLoadClick() of the metadata loader up to await fetch(url): by the
\* button, or by the watcher on url.
MetadataLoadClick ==
    /\ page.metadataLoads < MaxMetadataLoads
    /\ handleMetadata(<<>>)
    /\ page' = [page EXCEPT !.metadataLoads = @ + 1]

\* The continuation of handleLoadClick after the fetch: emit parseTsv(data), or
\* the catch block, which emits nothing (failed).
MetadataFetched(m, failed) ==
    /\ page.metadataLoads > 0
    /\ page' = [page EXCEPT !.metadataLoads = @ - 1]
    /\ IF failed
       THEN UNCHANGED <<viewerVars, tooltipVars, propChanges, lastCalls, scaleBar,
                        serviceVars>>
       ELSE handleMetadata(m)

MetadataNext ==
    \/ MetadataLoadClick
    \/ \E m \in PanelMetadataSets, failed \in BOOLEAN : MetadataFetched(m, failed)
    \/ \E f \in {"", "accessionVersion", "SampleID", "Country", "Year"} : ChooseField(f)
    \/ \E f \in {"SampleID", "Country", "Year"}, c \in BOOLEAN : ToggleLabelField(f, c)

\* The side panel over metadata loads, field selections and checkbox toggles.
MetadataSpec == PanelInit /\ [][MetadataNext]_vars

(***************************************************************************)
(* The scale bar under every answer of the renderer.                       *)
(***************************************************************************)
\* A 'zoom' or 'pan' event of the instance held: every handler that
\* applyNodeStyling registered runs calculateScaleBar(), each with the same
\* answers of the renderer and so with the same result.
ZoomOrPan(reading) ==
    /\ CanClick
    /\ instances[treeInstance].handlers > 0
    /\ scaleBar' = calculateScaleBar(scaleBar, treeInstance, reading)
    /\ page' = [page EXCEPT !.zoomRuns = instances[treeInstance].handlers]
    /\ lastCalls' = <<>>
    /\ UNCHANGED <<viewerVars, tooltipVars, propChanges, serviceVars>>

ScaleNext ==
    \/ \E o \in ConstructOutcomes : Mount(o)
    \/ \E i \in 1..Len(pending), l \in BOOLEAN, o \in ConstructOutcomes : LoadSettled(i, l, o)
    \/ \E q \in Readings : ResumeTick(q)
    \/ \E q \in Readings : ZoomOrPan(q)

ScaleSpec == Init /\ [][ScaleNext]_vars

\* Zoom and pan events between the style recomputations that changes of the
\* search term and of the label fields cause.
ZoomNext ==
    \/ \E o \in ConstructOutcomes : Mount(o)
    \/ \E i \in 1..Len(pending), l \in BOOLEAN, o \in ConstructOutcomes : LoadSettled(i, l, o)
    \/ \E q \in UnitReadings : ResumeTick(q)
    \/ \E q \in Readings : ZoomOrPan(q)
    \/ \E t \in SearchTerms : SetSearchTerm(t)
    \/ \E lf \in LabelFieldChoices : SetLabelFields(lf)

ZoomSpec == Init /\ [][ZoomNext]_vars

(***************************************************************************)
(* The tree builder's input and the preloader service.                     *)
(***************************************************************************)
Newline == "\n"

\* fastaContent.split('\n')
RECURSIVE SplitLines(_)
SplitLines(text) ==
    IF \E i \in 1..Len(text) : text[i] = Newline
    THEN LET i == CHOOSE j \in 1..Len(text) :
                    text[j] = Newline /\ \A h \in 1..(j - 1) : text[h] # Newline
         IN <<SubSeq(text, 1, i - 1)>> \o SplitLines(SubSeq(text, i + 1, Len(text)))
    ELSE <<text>>

\* strippedLines.join('\n')
RECURSIVE JoinLines(_)
JoinLines(lines) ==
    IF Len(lines) = 0 THEN <<>>
    ELSE IF Len(lines) = 1 THEN lines[1]
    ELSE lines[1] \o <<Newline>> \o JoinLines(Tail(lines))

\* The callback of lines.map that returns every line as it is.
stripLineKeepAll(line) == line

\* The callback of lines.map: '>' + line.substring(1).split('|')[0] for a
\* line that starts with '>'.
stripLine(line) ==
    IF Len(line) > 0 /\ line[1] = ">"
    THEN <<">">> \o SubSeq(Tail(line), 1, FirstBar(Tail(line)) - 1)
    ELSE line

stripFastaHeaders(fastaContent) ==
    LET lines == SplitLines(fastaContent)
    IN JoinLines([i \in 1..Len(lines) |-> stripLine(lines[i])])

\* Headers with one bar, without a bar and with two; a sequence line with a
\* bar; an empty line; a header with nothing before the bar; a last line
\* with and without a line end.
FastaInputs ==
    { <<">", "A", "1", "|", "S", "1", Newline, "A", "C", Newline,
        ">", "A", "2", Newline, "G", "|", "T">>,
      <<">", "A", "|", "B", "|", "C", Newline, Newline, ">", "|", "x", Newline>> }

\* calculateTree runs and preloadAll calls of one behaviour.
MaxCalls == 2
MaxPreloadCalls == 2

FailedToInitialize ==
    "Failed to initialize FastTree. Please check your internet connection and try again."

\* getLoadingStatus()
getLoadingStatus(p) ==
    [biowasm |-> p.biowasmInstance # 0 /\ p.biowasmInitialized,
     phylocanvas |-> p.phylocanvasLoaded,
     all |-> p.biowasmInstance # 0 /\ p.biowasmInitialized /\ p.phylocanvasLoaded]

\* Promise.all in the place of Promise.allSettled: a rejected preload
\* rejects the whole.
PromiseAll(biowasm, phylocanvas) ==
    IF phylocanvas = "rejected" THEN "rejected" ELSE "fulfilled"

\* The promise of executePreload once both preloads have settled:
\* Promise.allSettled fulfils whatever they did.
allSettled(biowasm, phylocanvas) == "fulfilled"

\* The preloader after one of the two preloads settled.
SettlePreload(p) ==
    IF p.biowasm \in {"loaded", "failed", "skipped"}
       /\ p.phylocanvas \in {"fulfilled", "rejected"}
    THEN [p EXCEPT !.loadingPromise = allSettled(p.biowasm, p.phylocanvas)]
    ELSE p

\* getBiowasmInstance never suspends.
awaitsNothing(loadingPromise) == FALSE

\* if (this.loadingPromise) await this.loadingPromise: the call is suspended
\* while the promise is pending; on a settled promise it goes on at once.
awaitsPreload(loadingPromise) == loadingPromise = "pending"

\* A continuation of getBiowasmInstance is due: it runs before any other event.
CallResumable ==
    /\ preloader.loadingPromise = "fulfilled"
    /\ \E c \in 1..Len(calls) : calls[c].at = "waiting"

\* getBiowasmInstance after its await, for call c of cs: the cached instance
\* goes to calculateTree, which mounts its file; or an on-demand
\* initialisation of a new service starts.
Proceed(cs, c) ==
    IF preloader.biowasmInstance # 0 /\ preloader.biowasmInitialized
    THEN /\ calls' = [cs EXCEPT ![c].at = "resolved",
                                ![c].instance = preloader.biowasmInstance]
         /\ builds' = Append(builds, [fasta |-> cs[c].fasta, text |-> cs[c].file,
                                      instance |-> preloader.biowasmInstance])
         /\ services' = services
    ELSE /\ calls' = [cs EXCEPT ![c].at = "initializing",
                                ![c].service = Len(services) + 1]
         /\ services' = Append(services, [by |-> "demand", state |-> "initializing"])
         /\ builds' = builds

\* calculateTree() of PhyloTree up to the first suspension of
\* preloader.getBiowasmInstance().
calculateTree(fastaContent) ==
    /\ Len(calls) < MaxCalls
    /\ ~CallResumable
    /\ fastaContent # <<>>
    /\ LET call == [fasta |-> fastaContent, file |-> stripFastaHeaders(fastaContent),
                    at |-> "waiting", waited |-> preloader.loadingPromise = "pending",
                    service |-> 0, instance |-> 0, error |-> ""]
       IN IF awaitsPreload(preloader.loadingPromise)
          THEN /\ calls' = Append(calls, call)
               /\ UNCHANGED <<services, builds>>
          ELSE Proceed(Append(calls, call), Len(calls) + 1)
    /\ UNCHANGED <<viewerVars, tooltipVars, propChanges, lastCalls, scaleBar, panel,
                   preloader>>

\* A caller of getBiowasmInstance with a FASTA text to build from.
CalculateTree(fastaContent) ==
    /\ calculateTree(fastaContent)
    /\ UNCHANGED page

\* The continuation of getBiowasmInstance after await this.loadingPromise:
\* the reactions to a promise run in the order they were registered in.
afterPreload(c) ==
    /\ c \in 1..Len(calls)
    /\ calls[c].at = "waiting"
    /\ \A h \in 1..(c - 1) : calls[h].at # "waiting"
    /\ preloader.loadingPromise = "fulfilled"
    /\ Proceed(calls, c)
    /\ UNCHANGED <<viewerVars, tooltipVars, propChanges, lastCalls, scaleBar, panel,
                   preloader>>

ResumeCall(c) ==
    /\ afterPreload(c)
    /\ UNCHANGED page

\* The continuation of getBiowasmInstance after await service.init(): the
\* initialisation succeeded (ok) or threw.
afterInit(c, ok) ==
    /\ c \in 1..Len(calls)
    /\ calls[c].at = "initializing"
    /\ ~CallResumable
    /\ IF ok
       THEN /\ services' = [services EXCEPT ![calls[c].service].state = "ready"]
            /\ preloader' = [preloader EXCEPT !.biowasmInstance = calls[c].service,
                                              !.biowasmInitialized = TRUE]
            /\ calls' = [calls EXCEPT ![c].at = "resolved",
                                      ![c].instance = calls[c].service]
            /\ builds' = Append(builds, [fasta |-> calls[c].fasta,
                                         text |-> calls[c].file,
                                         instance |-> calls[c].service])
       ELSE /\ services' = [services EXCEPT ![calls[c].service].state = "failed"]
            /\ calls' = [calls EXCEPT ![c].at = "rejected",
                                      ![c].error = FailedToInitialize]
            /\ UNCHANGED <<preloader, builds>>
    /\ UNCHANGED <<viewerVars, tooltipVars, propChanges, lastCalls, scaleBar, panel>>

DemandSettled(c, ok) ==
    /\ afterInit(c, ok)
    /\ UNCHANGED page

\* preloadAll(): executePreload() up to the awaits of preloadBiowasm and
\* preloadPhylocanvasGL, unless a promise is stored already; present: window
\* has the renderer library.
preloadAll(present) ==
    /\ preloader.preloadCalls < MaxPreloadCalls
    /\ ~CallResumable
    /\ IF preloader.loadingPromise # "null"
       THEN /\ preloader' = [preloader EXCEPT !.preloadCalls = @ + 1]
            /\ services' = services
       ELSE LET cached == preloader.biowasmInstance # 0 /\ preloader.biowasmInitialized
                started ==
                    [preloader EXCEPT
                        !.preloadCalls = @ + 1,
                        !.runs = @ + 1,
                        !.loadingPromise = "pending",
                        !.biowasm = IF cached THEN "skipped" ELSE "initializing",
                        !.biowasmInstance = IF cached THEN @ ELSE Len(services) + 1,
                        !.preloadService = IF cached THEN @ ELSE Len(services) + 1,
                        !.phylocanvas = IF present THEN "fulfilled" ELSE "loading",
                        !.phylocanvasLoaded = present]
            IN /\ preloader' = SettlePreload(started)
               /\ services' = IF cached THEN services
                              ELSE Append(services, [by |-> "preload",
                                                     state |-> "initializing"])
    /\ UNCHANGED <<tooltipVars, propChanges, lastCalls, scaleBar, panel, calls, builds>>
    /\ UNCHANGED <<mounted, props, treeInstance, instances, pending, renders, error>>

\* preloadAll() with the document left aside.
PreloadAll(present) ==
    /\ preloadAll(present)
    /\ UNCHANGED <<phylocanvasLoaded, page>>

\* The continuation of preloadBiowasm after await this.biowasmInstance.init().
PreloadBiowasmSettled(ok) ==
    /\ preloader.biowasm = "initializing"
    /\ ~CallResumable
    /\ services' = [services EXCEPT ![preloader.preloadService].state =
                                        IF ok THEN "ready" ELSE "failed"]
    /\ preloader' =
            SettlePreload(IF ok
                          THEN [preloader EXCEPT !.biowasm = "loaded",
                                                 !.biowasmInitialized = TRUE]
                          ELSE [preloader EXCEPT !.biowasm = "failed",
                                                 !.biowasmInstance = 0,
                                                 !.biowasmInitialized = FALSE])
    /\ UNCHANGED <<viewerVars, tooltipVars, propChanges, lastCalls, scaleBar, panel,
                   calls, builds, page>>

\* The promise of preloadPhylocanvasGL settles: the library arrived (ok), or
\* the script failed or timed out.
settlePhylocanvas(ok) ==
    /\ preloader.phylocanvas = "loading"
    /\ ~CallResumable
    /\ preloader' =
            SettlePreload([preloader EXCEPT
                              !.phylocanvas = IF ok THEN "fulfilled" ELSE "rejected",
                              !.phylocanvasLoaded = ok])
    /\ UNCHANGED <<tooltipVars, propChanges, lastCalls, scaleBar, panel, services,
                   calls, builds>>
    /\ UNCHANGED <<mounted, props, treeInstance, instances, pending, renders, error>>

\* The promise settles, the document left aside.
PreloadPhylocanvasSettled(ok) ==
    /\ settlePhylocanvas(ok)
    /\ UNCHANGED <<phylocanvasLoaded, page>>

LoaderNext ==
    \/ \E present \in BOOLEAN : PreloadAll(present)
    \/ \E ok \in BOOLEAN : PreloadBiowasmSettled(ok)
    \/ \E ok \in BOOLEAN : PreloadPhylocanvasSettled(ok)
    \/ \E f \in FastaInputs : CalculateTree(f)
    \/ \E c \in 1..Len(calls) : ResumeCall(c)
    \/ \E c \in 1..Len(calls), ok \in BOOLEAN : DemandSettled(c, ok)

\* The preloader under every interleaving of preloadAll, the tree
\* calculations and the completions of the loads.
LoaderSpec == PanelInit /\ [][LoaderNext]_vars

(***************************************************************************)
(* The tree calculation: the FASTA loader, the PhyloTree component and the *)
(* workers of the services.  A worker answers the requests posted to it in *)
(* the order they were posted.                                             *)
(***************************************************************************)
\* Fetches of the FASTA loader in flight at one time.
MaxFastaLoads == 2

UnableToInitialize ==
    "Unable to initialize tree calculation tool. Please check your internet connection and try again."

FailedToCalculate == "Failed to calculate tree"

\* input.fasta in the file system of service s, empty before the first mount.
FileOf(pg, s) == IF s \in DOMAIN pg.files THEN pg.files[s] ELSE <<>>

\* A run of calculateTree is suspended at one of its awaits.
InFlight(run) == run.step \in {"instance", "mount", "exec"}

\* The catch and finally blocks of calculateTree, or its end after the emit,
\* for run c: the refs of a component that was unmounted are not on the page.
Finish(pg, c, step, message) ==
    LET here == pg.runs[c].component = pg.phyloTree
    IN [pg EXCEPT !.runs[c].step = step,
                  !.isLoading = IF here THEN FALSE ELSE @,
                  !.treeError = IF here /\ step = "failed" THEN message ELSE @]

\* calculateTree for run c after getBiowasmInstance settled, given the calls
\* after the step: biowasm.mount(file) is posted, or the catch block runs.
Advance(pg, c, newCalls) ==
    IF newCalls[c].at = "resolved" /\ pg.runs[c].step = "instance"
    THEN [pg EXCEPT !.runs[c].step = "mount",
                    !.queue = Append(@, [call |-> c, op |-> "mount"])]
    ELSE IF newCalls[c].at = "rejected" /\ pg.runs[c].step = "instance"
    THEN Finish(pg, c, "failed", UnableToInitialize)
    ELSE pg

\* handleLoadClick() of the FASTA loader up to await fetch(url): it emits '',
\* handleFastaContent stores it and v-if="fastaContent" unmounts PhyloTree.
FastaLoadClick ==
    /\ page.fastaLoads < MaxFastaLoads
    /\ ~CallResumable
    /\ page' = [page EXCEPT !.fastaLoads = @ + 1, !.fastaContent = <<>>,
                            !.phyloTree = 0, !.isLoading = FALSE, !.treeError = ""]
    /\ UNCHANGED <<viewerVars, tooltipVars, propChanges, lastCalls, scaleBar,
                   serviceVars>>

\* The continuation of handleLoadClick after the fetch: the catch block
\* (failed), or emit(data) and handleFastaContent; then PhyloTree is mounted
\* or, when it is mounted and the content changed, its watcher runs:
\* calculateTree() up to its first suspension.
FastaFetched(data, failed) ==
    /\ page.fastaLoads > 0
    /\ ~CallResumable
    /\ LET loaded == [page EXCEPT !.fastaLoads = @ - 1]
           mounts == page.phyloTree = 0
           component == IF mounts THEN page.components + 1 ELSE page.phyloTree
           c == Len(calls) + 1
       IN IF failed \/ (data # <<>> /\ data = page.fastaContent)
          THEN /\ page' = loaded
               /\ UNCHANGED <<viewerVars, tooltipVars, propChanges, lastCalls,
                              scaleBar, serviceVars>>
          ELSE IF data = <<>>
          THEN /\ page' = [loaded EXCEPT !.fastaContent = <<>>, !.phyloTree = 0,
                                         !.isLoading = FALSE, !.treeError = ""]
               /\ UNCHANGED <<viewerVars, tooltipVars, propChanges, lastCalls,
                              scaleBar, serviceVars>>
          ELSE /\ calculateTree(data)
               /\ page' = Advance([loaded EXCEPT
                                     !.fastaContent = data,
                                     !.phyloTree = component,
                                     !.components = IF mounts THEN @ + 1 ELSE @,
                                     !.isLoading = TRUE,
                                     !.treeError = "",
                                     !.runs = Append(@, [component |-> component,
                                                         step |-> "instance"])],
                                  c, calls')

\* The continuation of getBiowasmInstance after await this.loadingPromise,
\* and calculateTree after it.
CallResumes(c) ==
    /\ afterPreload(c)
    /\ page' = Advance(page, c, calls')

\* The continuation of getBiowasmInstance after await service.init(), and
\* calculateTree after it.
InitSettles(c, ok) ==
    /\ afterInit(c, ok)
    /\ page' = Advance(page, c, calls')

\* The worker of service s answers the oldest request posted to it, and
\* calculateTree goes on after its await.  mount: the file is written and
\* exec is posted (ok), or mount throws.  exec: FastTree builds from the
\* file it finds; the output has a tree, which is emitted and stored by
\* handleTreeCalculated (ok), or it has none (empty), or exec throws.
WorkerAnswers(s, outcome) ==
    /\ ~CallResumable
    /\ \E i \in 1..Len(page.queue) :
        /\ calls[page.queue[i].call].instance = s
        /\ \A h \in 1..(i - 1) : calls[page.queue[h].call].instance # s
        /\ LET c == page.queue[i].call
               rest == [page EXCEPT !.queue = RemoveAt(@, i)]
           IN IF page.queue[i].op = "mount"
              THEN /\ outcome # "empty"
                   /\ page' =
                        IF outcome = "ok"
                        THEN [rest EXCEPT
                                !.files = [k \in 1..Len(services) |->
                                              IF k = s THEN calls[c].file
                                              ELSE FileOf(page, k)],
                                !.runs[c].step = "exec",
                                !.queue = Append(@, [call |-> c, op |-> "exec"])]
                        ELSE Finish(rest, c, "failed", FailedToCalculate)
              ELSE page' =
                        IF outcome = "ok"
                        THEN Finish([rest EXCEPT
                                        !.newickTree =
                                            IF rest.runs[c].component = rest.phyloTree
                                            THEN FileOf(page, s) ELSE @],
                                    c, "emitted", "")
                        ELSE IF outcome = "empty"
                        THEN Finish(rest, c, "failed", UnableToInitialize)
                        ELSE Finish(rest, c, "failed", FailedToCalculate)
    /\ UNCHANGED <<viewerVars, tooltipVars, propChanges, lastCalls, scaleBar,
                   serviceVars>>

TreeNext ==
    \/ \E present \in BOOLEAN : PreloadAll(present)
    \/ \E ok \in BOOLEAN : PreloadBiowasmSettled(ok)
    \/ \E ok \in BOOLEAN : PreloadPhylocanvasSettled(ok)
    \/ FastaLoadClick
    \/ \E f \in FastaInputs \cup {<<>>}, failed \in BOOLEAN : FastaFetched(f, failed)
    \/ \E c \in 1..Len(calls) : CallResumes(c)
    \/ \E c \in 1..Len(calls), ok \in BOOLEAN : InitSettles(c, ok)
    \/ \E s \in 1..Len(services), o \in {"ok", "empty", "throw"} : WorkerAnswers(s, o)

\* The tree calculations of the page under every interleaving of the FASTA
\* loads, the preload and the answers of the workers.
TreeSpec == PanelInit /\ [][TreeNext]_vars

(***************************************************************************)
(* Loading the renderer library.  renderTree of the viewer and             *)
(* executePreload of the preloader each run their own copy of the same     *)
(* loader: it looks at window, then for a script tag, and appends a tag    *)
(* only when it found neither.  The browser reports a tag as loaded or as  *)
(* failed; the timers of a request fire in any order.                      *)
(***************************************************************************)
\* script.src, cut where the word of the selector begins and ends.
ScriptSrc ==
    <<"https://unpkg.com/@", "phylocanvas", "/", "phylocanvas",
      ".gl@1.59.0/dist/bundle.min.js">>

\* document.querySelector('script[src*="phylocanvas"]') finds a tag.
querySelector(scripts) ==
    \E k \in 1..Len(scripts) : includes(scripts[k].src, <<"phylocanvas">>)

\* A promise of one of the loaders: how it waits (the library was present,
\* it polls for the library, it appended the script), where it is, and why
\* it was rejected.
Request(by, how, at) == [by |-> by, how |-> how, at |-> at, cause |-> ""]

\* The loader without the look for a script tag.
StartLoadNoTagCheck(pg, by) ==
    IF pg.library
    THEN [pg EXCEPT !.requests = Append(@, Request(by, "present", "resolved"))]
    ELSE [pg EXCEPT !.requests = Append(@, Request(by, "script", "script")),
                    !.scripts = Append(@, [src |-> ScriptSrc, state |-> "loading",
                                           request |-> Len(pg.requests) + 1])]

\* The promise executor of loadPhylocanvasGL and of preloadPhylocanvasGL up
\* to its return: resolve() at once, or setInterval and setTimeout, or
\* appendChild of a new script with its onload and onerror.
StartLoad(pg, by) ==
    IF pg.library
    THEN [pg EXCEPT !.requests = Append(@, Request(by, "present", "resolved"))]
    ELSE IF querySelector(pg.scripts)
    THEN [pg EXCEPT !.requests = Append(@, Request(by, "poll", "poll"))]
    ELSE [pg EXCEPT !.requests = Append(@, Request(by, "script", "script")),
                    !.scripts = Append(@, [src |-> ScriptSrc, state |-> "loading",
                                           request |-> Len(pg.requests) + 1])]

loadPhylocanvasGL(pg) == StartLoad(pg, "viewer")

preloadPhylocanvasGL(pg) == StartLoad(pg, "preloader")

\* The page after renderTree ran to its first await: it has called
\* loadPhylocanvasGL when it waits for the load.
RenderCalls(pg) ==
    IF Len(pending') = Len(pending) + 1 /\ pending'[Len(pending')] = "load"
    THEN LET loading == loadPhylocanvasGL(pg)
         IN [loading EXCEPT !.loadIds = Append(@, Len(loading.requests))]
    ELSE pg

\* onMounted of the viewer with its call of loadPhylocanvasGL, which sets
\* the flag when the library is there already.
MountLoads(outcome) ==
    /\ onMounted(outcome)
    /\ page' = RenderCalls(page)
    /\ phylocanvasLoaded' = (phylocanvasLoaded \/ (page' # page /\ page.library))

\* The watcher of props.newick with its call of loadPhylocanvasGL.
NewickChangeLoads(t, outcome) ==
    /\ watchNewick(t, outcome)
    /\ page' = RenderCalls(page)
    /\ phylocanvasLoaded' = (phylocanvasLoaded \/ (page' # page /\ page.library))

\* The place among the awaited requests of the "load" entry i of pending.
LoadIndex(i) == Cardinality({h \in 1..i : pending[h] = "load"})

\* renderTree goes on after await loadPhylocanvasGL() once its request has
\* settled.
RenderResumes(i, outcome) ==
    /\ i \in 1..Len(pending)
    /\ pending[i] = "load"
    /\ page.requests[page.loadIds[LoadIndex(i)]].at \in {"resolved", "rejected"}
    /\ afterLoad(i, page.requests[page.loadIds[LoadIndex(i)]].at = "resolved", outcome)
    /\ page' = [page EXCEPT !.loadIds = RemoveAt(@, LoadIndex(i))]

\* preloadAll() with the call of preloadPhylocanvasGL that executePreload
\* makes.
PreloadAllLoads ==
    /\ preloadAll(page.library)
    /\ page' = IF preloader.loadingPromise = "null"
               THEN preloadPhylocanvasGL(page) ELSE page
    /\ UNCHANGED phylocanvasLoaded

\* resolve() or reject() of request r, but for the request itself: the
\* preloader's promise settles, the viewer's loader sets its flag on resolve.
Settles(r, ok) ==
    IF page.requests[r].by = "preloader"
    THEN /\ settlePhylocanvas(ok)
         /\ UNCHANGED phylocanvasLoaded
    ELSE /\ phylocanvasLoaded' = (phylocanvasLoaded \/ ok)
         /\ UNCHANGED <<mounted, props, treeInstance, instances, pending, renders,
                        error, tooltipVars, propChanges, lastCalls, scaleBar,
                        serviceVars>>

\* The browser ran the script of tag k and fires onload, which starts the
\* timer of 500 ms; defines: the script has set window.phylocanvas.
ScriptLoaded(k, defines) ==
    /\ k \in 1..Len(page.scripts)
    /\ page.scripts[k].state = "loading"
    /\ page' = [page EXCEPT !.scripts[k].state = "loaded",
                            !.library = @ \/ defines,
                            !.requests[page.scripts[k].request].at = "delay"]
    /\ UNCHANGED <<viewerVars, tooltipVars, propChanges, lastCalls, scaleBar,
                   serviceVars>>

\* The browser could not load tag k and fires onerror.
ScriptError(k) ==
    /\ k \in 1..Len(page.scripts)
    /\ page.scripts[k].state = "loading"
    /\ page' = [page EXCEPT !.scripts[k].state = "failed",
                            !.requests[page.scripts[k].request].at = "rejected",
                            !.requests[page.scripts[k].request].cause = "error"]
    /\ Settles(page.scripts[k].request, FALSE)

\* The timer of 500 ms set by onload fires.
DelayFires(r) ==
    /\ r \in 1..Len(page.requests)
    /\ page.requests[r].at = "delay"
    /\ page' = IF page.library
               THEN [page EXCEPT !.requests[r].at = "resolved"]
               ELSE [page EXCEPT !.requests[r].at = "rejected",
                                 !.requests[r].cause = "absent"]
    /\ Settles(r, page.library)

\* A tick of the interval of 100 ms finds the library.
PollTick(r) ==
    /\ r \in 1..Len(page.requests)
    /\ page.requests[r].at = "poll"
    /\ page.library
    /\ page' = [page EXCEPT !.requests[r].at = "resolved"]
    /\ Settles(r, TRUE)

\* The timer of 10 s fires on a request that still polls.
PollTimeout(r) ==
    /\ r \in 1..Len(page.requests)
    /\ page.requests[r].at = "poll"
    /\ page' = [page EXCEPT !.requests[r].at = "rejected",
                            !.requests[r].cause = "timeout"]
    /\ Settles(r, FALSE)

\* The requests a run can make: one of each renderTree call, one of the
\* preloader.
MaxRequests == MaxRenders + 1

ScriptNext ==
    \/ \E outcome \in ConstructOutcomes : MountLoads(outcome)
    \/ \E t \in Newicks, outcome \in ConstructOutcomes : NewickChangeLoads(t, outcome)
    \/ \E i \in 1..Len(pending), outcome \in ConstructOutcomes : RenderResumes(i, outcome)
    \/ ResumeTick(UnitReading)
    \/ PreloadAllLoads
    \/ \E k \in 1..Len(page.scripts), defines \in BOOLEAN : ScriptLoaded(k, defines)
    \/ \E k \in 1..Len(page.scripts) : ScriptError(k)
    \/ \E r \in 1..Len(page.requests) : DelayFires(r)
    \/ \E r \in 1..Len(page.requests) : PollTick(r)
    \/ \E r \in 1..Len(page.requests) : PollTimeout(r)

\* The viewer and the preloader loading the library into one document.
ScriptSpec == Init /\ [][ScriptNext]_vars

\* The browser reports every script tag as loaded or as failed, and every
\* timer that was set fires.
ScriptLiveSpec ==
    /\ ScriptSpec
    /\ WF_vars(\E k \in 1..MaxRequests :
                    ScriptLoaded(k, TRUE) \/ ScriptLoaded(k, FALSE) \/ ScriptError(k))
    /\ \A r \in 1..MaxRequests :
            WF_vars(DelayFires(r)) /\ WF_vars(PollTick(r)) /\ WF_vars(PollTimeout(r))

(***************************************************************************)
(* The preloading overlay of the app: onMounted of App awaits preloadAll   *)
(* and then clears isPreloading, while tree calculations may already ask   *)
(* the preloader for its service.                                          *)
(***************************************************************************)
AllPreloaded == "All dependencies preloaded successfully!"
SomePreloaded == "Some dependencies preloaded (others will load on-demand)"
NonePreloaded == "Using on-demand loading (preload failed)"
PreloadIncomplete == "Preload incomplete - using on-demand loading"

\* onMounted of App after its await, keeping the overlay unless every
\* dependency was preloaded.
afterPreloadAllKeepsOverlay(pg, settled, status) ==
    IF settled = "fulfilled" /\ ~status.all
    THEN [pg EXCEPT !.debugInfo = IF status.biowasm \/ status.phylocanvas
                                  THEN SomePreloaded ELSE NonePreloaded,
                    !.app = "done"]
    ELSE [pg EXCEPT !.debugInfo = IF settled = "fulfilled"
                                  THEN AllPreloaded ELSE PreloadIncomplete,
                    !.isPreloading = FALSE,
                    !.hides = @ + 1,
                    !.app = "done"]

\* onMounted of App after await preloader.preloadAll(): the try branch on a
\* fulfilled promise, the catch branch on a rejected one; status is what
\* getLoadingStatus() returns.
afterPreloadAll(pg, settled, status) ==
    IF settled = "fulfilled"
    THEN [pg EXCEPT !.debugInfo = IF status.all THEN AllPreloaded
                                  ELSE IF status.biowasm \/ status.phylocanvas
                                  THEN SomePreloaded ELSE NonePreloaded,
                    !.isPreloading = FALSE,
                    !.hides = @ + 1,
                    !.app = "done"]
    ELSE [pg EXCEPT !.debugInfo = PreloadIncomplete,
                    !.isPreloading = FALSE,
                    !.hides = @ + 1,
                    !.app = "done"]

\* onMounted of App up to await preloader.preloadAll().
AppMounted(present) ==
    /\ page.app = "created"
    /\ preloadAll(present)
    /\ page' = [page EXCEPT !.app = "awaiting", !.debugInfo = "Preloading dependencies..."]
    /\ UNCHANGED phylocanvasLoaded

\* The promise of preloadAll has settled and onMounted of App goes on.
AppResumes ==
    /\ page.app = "awaiting"
    /\ preloader.loadingPromise \in {"fulfilled", "rejected"}
    /\ page' = afterPreloadAll(page, preloader.loadingPromise, getLoadingStatus(preloader))
    /\ UNCHANGED <<viewerVars, tooltipVars, propChanges, lastCalls, scaleBar,
                   serviceVars>>

AppNext ==
    \/ \E present \in BOOLEAN : AppMounted(present)
    \/ \E ok \in BOOLEAN : PreloadBiowasmSettled(ok)
    \/ \E ok \in BOOLEAN : PreloadPhylocanvasSettled(ok)
    \/ AppResumes
    \/ \E f \in FastaInputs : CalculateTree(f)
    \/ \E c \in 1..Len(calls) : ResumeCall(c)
    \/ \E c \in 1..Len(calls), ok \in BOOLEAN : DemandSettled(c, ok)

\* The app starting up while tree calculations are asked for.
AppSpec == PanelInit /\ [][AppNext]_vars

\* The app is mounted, every load of the preloader resolves or rejects, and
\* a continuation that is due runs.
AppLiveSpec ==
    /\ AppSpec
    /\ WF_vars(AppMounted(TRUE) \/ AppMounted(FALSE))
    /\ WF_vars(PreloadBiowasmSettled(TRUE) \/ PreloadBiowasmSettled(FALSE))
    /\ WF_vars(PreloadPhylocanvasSettled(TRUE) \/ PreloadPhylocanvasSettled(FALSE))
    /\ WF_vars(AppResumes)

(***************************************************************************)
(* Properties of the tooltip session.                                      *)
(***************************************************************************)
NodeKeys == UNION {DOMAIN Trees[t] : t \in Newicks}

\* The tooltip shown at viewport vp lies inside it with the margin on all sides.
InsideWithMargin(d, vp) ==
    /\ edgeMargin <= d.left
    /\ d.left + tooltipWidth <= vp.W - edgeMargin
    /\ edgeMargin <= d.top
    /\ d.top + tooltipHeight <= vp.H - edgeMargin

\* The leaves below node k of tree t, as a set of keys.
RECURSIVE LeafKeysBelow(_, _)
LeafKeysBelow(t, k) ==
    IF Trees[t][k].isLeaf THEN {k}
    ELSE UNION {LeafKeysBelow(t, Trees[t][k].children[i]) :
                    i \in 1..Len(Trees[t][k].children)}

\* What a session shows of its node.
Content(tt) ==
    [node |-> tt.node, nodeType |-> tt.nodeType, isInternal |-> tt.isInternal,
     isCollapsed |-> tt.isCollapsed, metadata |-> tt.metadata,
     pieChartData |-> tt.pieChartData, descendantCount |-> tt.descendantCount,
     x |-> tt.x, y |-> tt.y]

Hidden(tt) ==
    /\ ~tt.visible
    /\ tt.node = NoNode
    /\ ~tt.isDragging
    /\ tt.dragOffsetX = 0
    /\ tt.dragOffsetY = 0

\* C1: once renderTree has replaced the renderer instance, the tooltip is
\* not visible with a target node of an instance that was destroyed or
\* replaced: a visible tooltip's node belongs to the instance held.
C1_VisibleTooltipNodeIsLive ==
    (nodeTooltip.visible /\ pending = <<>>) =>
        /\ nodeTooltip.node.inst = treeInstance
        /\ ~instances[nodeTooltip.node.inst].destroyed

\* C2: the delayed hide of a collapse toggle never hides a session that a
\* node click opened after that toggle: when the callback of a timer that
\* predates the last node click runs, a visible tooltip stays visible.
C2_DelayedHideSparesLaterSession ==
    [][(timers # <<>> /\ Head(timers).stale /\ TimerFire)
          => (nodeTooltip.visible => nodeTooltip'.visible)]_vars

\* C3: whenever the tooltip is visible and not dragged, its display position
\* keeps the 300x200 box inside every viewport of at least 320x220 with a
\* margin of 10 on all four sides.
C3_DisplayKeepsMargin ==
    (nodeTooltip.visible /\ ~nodeTooltip.isDragging) =>
        \A vp \in Viewports :
            InsideWithMargin(nodeTooltipGlobalStyle(nodeTooltip, vp), vp)

\* C4: after any node click the session is Visible(static): visible, not
\* dragging, drag offset (0, 0), the clicked node as target, its kind
\* recorded, and the base position at (left + x + 10, top + y - 10) of the
\* node's position (x, y).
C4_ClickGivesVisibleStatic ==
    [][\A k \in NodeKeys :
          SelectNode(k) =>
              LET node == NodeOf(instances[treeInstance].tree, k)
              IN /\ nodeTooltip'.visible
                 /\ ~nodeTooltip'.isDragging
                 /\ nodeTooltip'.dragOffsetX = 0
                 /\ nodeTooltip'.dragOffsetY = 0
                 /\ nodeTooltip'.node = [inst |-> treeInstance, key |-> k]
                 /\ nodeTooltip'.isInternal = ~node.isLeaf
                 /\ nodeTooltip'.x = CanvasRect.left + node.x + clickOffset
                 /\ nodeTooltip'.y = CanvasRect.top + node.y - clickOffset]_vars

\* C5: while a drag is active, after every pointer-move the displayed
\* position is base + (pointer - pointer at pointer-down), unclamped, in
\* every viewport; pointer-down and pointer-move leave the base unchanged.
C5_DragFollowsPointer ==
    /\ [](nodeTooltip.isDragging /\ drag.moved =>
            \A vp \in Viewports :
                nodeTooltipGlobalStyle(nodeTooltip, vp) =
                    [left |-> nodeTooltip.x + (drag.now.x - drag.down.x),
                     top |-> nodeTooltip.y + (drag.now.y - drag.down.y)])
    /\ [][(\E p \in PointerPositions : StartDrag(p) \/ OnDrag(p)) =>
            /\ nodeTooltip'.x = nodeTooltip.x
            /\ nodeTooltip'.y = nodeTooltip.y]_vars

\* A state in which the dragged tooltip is displayed beyond the right edge
\* of every viewport.
C5_Witness ==
    /\ nodeTooltip.isDragging
    /\ drag.moved
    /\ \A vp \in Viewports :
          nodeTooltipGlobalStyle(nodeTooltip, vp).left + tooltipWidth > vp.W

C7_CloseAndBackgroundHide ==
    [][(Close \/ SelectBackground) => Hidden(nodeTooltip')]_vars

\* A hidden session whose drag was cut short: the document listeners of the
\* drag are still registered.
C7_Witness ==
    /\ Hidden(nodeTooltip)
    /\ listening
    /\ timers = <<>>
    /\ nodeTooltip.dragStartX # 0

\* The toggle has something to do: an internal target node and a renderer
\* with collapseNode.
CanToggle ==
    /\ nodeTooltip.node # NoNode
    /\ ~NodeObject(nodeTooltip.node).isLeaf
    /\ treeInstance # 0
    /\ instances[treeInstance].canCollapse

\* C8: a collapse toggle on an internal target calls collapseNode once with
\* the node's id, flips isCollapsed and leaves the tooltip visible, and the
\* tooltip is hidden once the delay has expired; on a leaf, without target
\* or without collapseNode it changes nothing and schedules no hide.
C8_ToggleDelegatesThenHides ==
    /\ [][ToggleNodeCollapse =>
            IF CanToggle
            THEN /\ lastCalls' = <<NodeObject(nodeTooltip.node).id>>
                 /\ nodeTooltip' = [nodeTooltip EXCEPT !.isCollapsed = ~@]
                 /\ nodeTooltip'.visible = nodeTooltip.visible
                 /\ timers' = Append(timers, [stale |-> FALSE])
            ELSE /\ lastCalls' = <<>>
                 /\ UNCHANGED <<nodeTooltip, timers, instances, treeInstance>>]_vars
    /\ (timers # <<>>) ~> ~nodeTooltip.visible

\* A state right after a toggle that collapsed the node: the call is
\* recorded, the hide is pending, the tooltip is still visible.
C8_Witness ==
    /\ lastCalls # <<>>
    /\ timers # <<>>
    /\ nodeTooltip.visible
    /\ nodeTooltip.isCollapsed

\* C9: the content a node click stores depends only on the clicked node and
\* the current inputs.  Leaf: the record matching the accession key (none
\* when there is no match), no pie data, not collapsed.  Internal node: no
\* metadata, the node's collapsed flag, the number of descendant leaves, the
\* PieAggregator result when a field is selected and the result is not
\* empty.  Nothing of the previous node's content remains.
C9_ClickStoresContentOfNode ==
    [][\A k \in NodeKeys :
          SelectNode(k) =>
              LET n == [inst |-> treeInstance, key |-> k]
                  t == instances[treeInstance].tree
                  node == NodeOf(t, k)
                  key == extractAccessionVersion(node.id)
                  hits == {i \in 1..Len(props.metadata) :
                              props.metadata[i].accessionVersion = key}
                  agg == calculatePieChartData(props, getDescendantLeaves(t, k))
                  tt == nodeTooltip'
              IN /\ node.isLeaf =>
                        /\ IF hits = {} THEN tt.metadata = NoRecord
                           ELSE \E i \in hits : tt.metadata = props.metadata[i]
                        /\ tt.pieChartData = NoPie
                        /\ ~tt.isCollapsed
                 /\ ~node.isLeaf =>
                        /\ tt.metadata = NoRecord
                        /\ tt.isCollapsed = (k \in instances[treeInstance].collapsed)
                        /\ tt.descendantCount = Cardinality(LeafKeysBelow(t, k))
                        /\ tt.pieChartData =
                              IF props.selectedField # "" /\ agg # <<>>
                              THEN [present |-> TRUE, segments |-> agg]
                              ELSE NoPie
                 /\ Content(tt) =
                        Content(showNodeTooltip(InitialTooltip, n, tt.x - CanvasRect.left - clickOffset,
                                                tt.y - CanvasRect.top + clickOffset))]_vars

\* A session on an internal node with pie data of its two descendants.
C9_Witness ==
    /\ nodeTooltip.visible
    /\ nodeTooltip.isInternal
    /\ nodeTooltip.pieChartData.present
    /\ nodeTooltip.descendantCount = 2

(***************************************************************************)
(* Properties of the style compiler.                                       *)
(***************************************************************************)
\* The colour map has an entry for the leaf's value of the selected field.
HasColourEntry(p, id) ==
    LET item == FindRecord(p.metadata, extractAccessionVersion(id))
    IN /\ p.selectedField # ""
       /\ item # NoRecord
       /\ Truthy(item, p.selectedField)
       /\ \E i \in 1..Len(p.colorMap) : p.colorMap[i].value = item[p.selectedField]

\* The leaves generateStyles compiles a directive for.
StyledLeafIds(t) ==
    {GraphLeaves(t)[i].id : i \in 1..Len(GraphLeaves(t))} \ {<<>>}

\* C10: in the compiled style map a leaf that matches a non-empty search
\* term carries exactly the highlight style (fill #ff0000, stroke #cc0000,
\* width 2) whatever the colour map says; otherwise a leaf whose value of
\* the selected field has a colour carries that fill and no stroke;
\* otherwise it carries no fill and no stroke.
C10_SearchPrecedence ==
    \A t \in Newicks : \A id \in StyledLeafIds(t) :
        LET style == generateStyles(props, GraphLeaves(t))[id]
            item == FindRecord(props.metadata, extractAccessionVersion(id))
        IN IF props.searchTerm # <<>> /\ isNodeMatched(props, id)
           THEN /\ DOMAIN style = {"label", "fillColour", "strokeColour", "strokeWidth"}
                /\ style.fillColour = "#ff0000"
                /\ style.strokeColour = "#cc0000"
                /\ style.strokeWidth = 2
           ELSE IF HasColourEntry(props, id)
           THEN /\ DOMAIN style = {"label", "fillColour"}
                /\ style.fillColour = ColorOf(props.colorMap, item[props.selectedField])
           ELSE DOMAIN style = {"label"}

\* The renderer holds a style map in which a leaf that has a colour in the
\* colour map is highlighted because it matches the search term.
C10_Witness ==
    /\ treeInstance # 0
    /\ instances[treeInstance].styled
    /\ \E id \in StyledLeafIds(instances[treeInstance].tree) :
          /\ props.searchTerm # <<>>
          /\ isNodeMatched(props, id)
          /\ HasColourEntry(props, id)
          /\ instances[treeInstance].styles[id].fillColour = "#ff0000"

(***************************************************************************)
(* Properties of the annotation engine.                                    *)
(***************************************************************************)
\* The ids the renderer gives the nodes of its trees, and two names with
\* more than one '|'.
NodeIds ==
    UNION {{Trees[t][k].id : k \in DOMAIN Trees[t]} : t \in DOMAIN Trees}
        \cup {<<"A", "1", "|", "b", "|", "c">>, <<"|">>}

\* The records of metadata whose accessionVersion is key.
RecordsOf(metadata, key) ==
    {i \in 1..Len(metadata) :
        /\ "accessionVersion" \in DOMAIN metadata[i]
        /\ metadata[i].accessionVersion = key}

\* The instances whose style map was set.
StyledInstances == {n \in 1..Len(instances) : instances[n].styled}

\* C11: the compiled style map has an entry for a leaf exactly when the
\* leaf's id is non-empty, and the label of every entry is buildNodeLabel of
\* the id under the current metadata and label fields.
C11_EntryPerNamedLeaf ==
    \A n \in StyledInstances :
        LET leaves == GraphLeaves(instances[n].tree)
            styles == instances[n].styles
        IN /\ \A i \in 1..Len(leaves) :
                (leaves[i].id \in DOMAIN styles) <=> (leaves[i].id # <<>>)
           /\ \A id \in DOMAIN styles :
                /\ \E i \in 1..Len(leaves) : leaves[i].id = id
                /\ "label" \in DOMAIN styles[id]
                /\ styles[id].label = buildNodeLabel(props, id)

\* The style map of a tree with a leaf without id: the leaf has no entry,
\* the named leaves have one.
C11_Witness ==
    /\ treeInstance # 0
    /\ instances[treeInstance].styled
    /\ instances[treeInstance].tree = "T3"
    /\ <<>> \notin DOMAIN instances[treeInstance].styles
    /\ sA1 \in DOMAIN instances[treeInstance].styles
    /\ Len(instances[treeInstance].styles[sA1].label) > Len(sA1)

\* The length of the parts appended after the accession: each value with the
\* separator before it.
RECURSIVE AppendedLength(_)
AppendedLength(values) ==
    IF values = <<>> THEN 0
    ELSE 1 + Len(Head(values)) + AppendedLength(Tail(values))

\* label is key followed, for each value in order, by '|' and the value.
IsLabelOf(label, key, values) ==
    /\ Len(label) = Len(key) + AppendedLength(values)
    /\ SubSeq(label, 1, Len(key)) = key
    /\ \A j \in 1..Len(values) :
          LET at == Len(key) + AppendedLength(SubSeq(values, 1, j - 1))
          IN /\ label[at + 1] = Bar
             /\ SubSeq(label, at + 2, at + 1 + Len(values[j])) = values[j]

\* C13: buildNodeLabel returns the accession key followed by the values of
\* the label fields that are defined and non-empty in the matched record, in
\* the order the fields were supplied, joined with '|'; the key alone when
\* no record matches or the metadata is empty.  It starts with the key.
C13_LabelIsKeyThenFieldValues ==
    \A id \in NodeIds :
        LET label == buildNodeLabel(props, id)
            key == extractAccessionVersion(id)
            hits == RecordsOf(props.metadata, key)
            kept(rec) == SelectSeq(props.labelFields,
                                   LAMBDA f : f \in DOMAIN rec /\ rec[f] # <<>>)
        IN /\ SubSeq(label, 1, Len(key)) = key
           /\ IF hits = {} THEN label = key
              ELSE \E i \in hits :
                      IsLabelOf(label, key,
                                [j \in 1..Len(kept(props.metadata[i])) |->
                                    props.metadata[i][kept(props.metadata[i])[j]]])

\* The renderer holds the label A1|S1|USA for label fields supplied in the
\* order SampleID, Country, and the key alone for a leaf without record.
C13_Witness ==
    /\ treeInstance # 0
    /\ instances[treeInstance].styled
    /\ props.labelFields = <<"SampleID", "Country">>
    /\ sA1 \in DOMAIN instances[treeInstance].styles
    /\ instances[treeInstance].styles[sA1].label = sA1 \o <<Bar, "S", "1", Bar>> \o sUSA
    /\ instances[treeInstance].styles[<<Bar, "x">>].label = <<>>

\* The ids the component has handed to extractAccessionVersion so far: the
\* keys of the style maps and the id of the tooltip's node.
ProcessedIds ==
    UNION {DOMAIN instances[n].styles : n \in StyledInstances}
        \cup (IF nodeTooltip.node # NoNode THEN {NodeObject(nodeTooltip.node).id} ELSE {})

\* C14: extractAccessionVersion(s) is the part of s before its first '|',
\* or s when it has none; extracting twice is the same as extracting once.
C14_KeyIsPrefixBeforeFirstBar ==
    \A s \in NodeIds \cup ProcessedIds :
        LET key == extractAccessionVersion(s)
        IN /\ Len(key) <= Len(s)
           /\ \A i \in 1..Len(key) : key[i] = s[i] /\ key[i] # Bar
           /\ Len(key) < Len(s) => s[Len(key) + 1] = Bar
           /\ (\A i \in 1..Len(s) : s[i] # Bar) => key = s
           /\ extractAccessionVersion(key) = key

\* A click on the leaf A2|S2 resolved the record of A2.
C14_Witness ==
    /\ nodeTooltip.visible
    /\ NodeObject(nodeTooltip.node).id = <<"A", "2", "|", "S", "2">>
    /\ nodeTooltip.metadata # NoRecord
    /\ nodeTooltip.metadata.accessionVersion = sA2

\* C12: styles are recomputed after every change of metadata, selected
\* field, colour map, search term, label fields or tree: once the handlers
\* a change triggered have run, the style map the renderer holds is the one
\* compiled from the current leaves, metadata and options.
C12_StylesFollowInputs ==
    (treeInstance # 0 /\ pending = <<>> /\ instances[treeInstance].styled) =>
        instances[treeInstance].styles =
            generateStyles(props, GraphLeaves(instances[treeInstance].tree))

\* The descendant leaves of the tooltip's node that the pie aggregation
\* counted: those with a matched record that has a value of the field.
CountedLeaves ==
    IF nodeTooltip.node = NoNode \/ ~nodeTooltip.pieChartData.present THEN {}
    ELSE LET leaves == getDescendantLeaves(TreeOfNode(nodeTooltip.node), nodeTooltip.node.key)
         IN {leaves[i].id : i \in
                {j \in 1..Len(leaves) :
                    LET item == FindRecord(props.metadata, extractAccessionVersion(leaves[j].id))
                    IN item # NoRecord /\ Truthy(item, props.selectedField)}}

\* C15: every leaf id the engine processes has a non-empty accession key:
\* the ids with a style-map entry, the leaves counted by the pie
\* aggregation, and the leaf a tooltip resolved.
C15_ProcessedLeafHasKey ==
    /\ \A n \in StyledInstances : \A id \in DOMAIN instances[n].styles :
          extractAccessionVersion(id) # <<>>
    /\ \A id \in CountedLeaves : extractAccessionVersion(id) # <<>>
    /\ (nodeTooltip.visible /\ ~nodeTooltip.isInternal) =>
          extractAccessionVersion(NodeObject(nodeTooltip.node).id) # <<>>

\* No two records of the metadata share an accessionVersion.
UniqueKeys(metadata) ==
    \A i, j \in 1..Len(metadata) :
        ("accessionVersion" \in DOMAIN metadata[i] /\ "accessionVersion" \in DOMAIN metadata[j]
            /\ metadata[i].accessionVersion = metadata[j].accessionVersion) => i = j

\* Some field value of rec, lower-cased, has the lower-cased query as a
\* contiguous part.
RecordContains(rec, query) ==
    \E f \in DOMAIN rec :
        \E a \in 1..(Len(rec[f]) - Len(query) + 1) :
            SubSeq(toLowerCase(rec[f]), a, a + Len(query) - 1) = toLowerCase(query)

LastRecordOf(metadata, key) ==
    LET hits == RecordsOf(metadata, key)
    IN IF hits = {} THEN NoRecord
       ELSE metadata[CHOOSE i \in hits : \A j \in hits : j <= i]

\* C17: metadata lookup is last-write-wins and the same for all consumers:
\* the label of a style-map entry and the record of a leaf tooltip come from
\* the last record with the accession key, the record the pie metadata of
\* the renderer was taken from is the one the lookups resolve, and a record
\* without accessionVersion is never resolved.
C17_LookupIsLastWriteWins ==
    /\ \A n \in StyledInstances : \A id \in DOMAIN instances[n].styles :
          LET key == extractAccessionVersion(id)
              rec == LastRecordOf(props.metadata, key)
              kept == SelectSeq(props.labelFields, LAMBDA f : f \in DOMAIN rec /\ rec[f] # <<>>)
          IN rec # NoRecord =>
                IsLabelOf(instances[n].styles[id].label, key,
                          [j \in 1..Len(kept) |-> rec[kept[j]]])
    /\ (nodeTooltip.visible /\ ~nodeTooltip.isInternal) =>
          /\ nodeTooltip.metadata =
                LastRecordOf(props.metadata,
                             extractAccessionVersion(NodeObject(nodeTooltip.node).id))
          /\ nodeTooltip.metadata # NoRecord =>
                "accessionVersion" \in DOMAIN nodeTooltip.metadata
    /\ treeInstance # 0 =>
          \A key \in DOMAIN createMetadataForPieCharts(props) :
              props.metadata[createMetadataForPieCharts(props)[key]] =
                  FindRecord(props.metadata, key)

\* The descendant leaves of node k of tree t, and for each the value of the
\* selected field in its record (the empty string when it has none).
ValueOfLeaf(leaf) ==
    LET item == FindRecord(props.metadata, extractAccessionVersion(leaf.id))
    IN IF props.selectedField # "" /\ item # NoRecord /\ Truthy(item, props.selectedField)
       THEN item[props.selectedField] ELSE <<>>

LeafValues(t, k) ==
    LET leaves == getDescendantLeaves(t, k)
    IN [j \in 1..Len(leaves) |-> ValueOfLeaf(leaves[j])]

FirstEncountered(vals) ==
    LET firsts == {j \in 1..Len(vals) :
                      vals[j] # <<>> /\ \A h \in 1..(j - 1) : vals[h] # vals[j]}
    IN [n \in 1..Cardinality(firsts) |->
            vals[CHOOSE j \in firsts : Cardinality({h \in firsts : h < j}) = n - 1]]

\* C19: the pie segments are in the order in which the distinct values are
\* first encountered among the descendants in traversal order, also for
\* values that are strings of digits.
C19_SegmentsInFirstEncounteredOrder ==
    (nodeTooltip.visible /\ nodeTooltip.pieChartData.present) =>
        [i \in 1..Len(nodeTooltip.pieChartData.segments) |->
            nodeTooltip.pieChartData.segments[i].value]
          = FirstEncountered(LeafValues(TreeOfNode(nodeTooltip.node), nodeTooltip.node.key))

\* C20: calculatePieChartData returns the empty sequence exactly when no
\* descendant leaf has a matched record with a non-empty value of the
\* selected field (also when no field is selected or the metadata is empty),
\* it never returns a segment of count 0, and the tooltip of an internal
\* node then records no pie data instead of an empty pie.
C20_EmptyPieIsNoPie ==
    /\ \A t \in DOMAIN Trees : \A k \in DOMAIN Trees[t] :
          LET pie == calculatePieChartData(props, getDescendantLeaves(t, k))
              vals == LeafValues(t, k)
          IN /\ (pie = <<>>) <=> (\A j \in 1..Len(vals) : vals[j] = <<>>)
             /\ (props.selectedField = "" \/ props.metadata = <<>>) => pie = <<>>
             /\ \A i \in 1..Len(pie) : pie[i].count > 0
    /\ nodeTooltip.visible =>
          /\ nodeTooltip.pieChartData.present => nodeTooltip.pieChartData.segments # <<>>
          /\ nodeTooltip.isInternal =>
                LET vals == LeafValues(TreeOfNode(nodeTooltip.node), nodeTooltip.node.key)
                IN (nodeTooltip.pieChartData = NoPie) <=>
                      (\A j \in 1..Len(vals) : vals[j] = <<>>)

\* A tooltip on an internal node with a field selected and metadata loaded,
\* none of whose descendants has a value of the field: no pie data.
C20_Witness ==
    /\ nodeTooltip.visible
    /\ nodeTooltip.isInternal
    /\ props.selectedField # ""
    /\ props.metadata # <<>>
    /\ nodeTooltip.descendantCount = 3
    /\ nodeTooltip.pieChartData = NoPie

(***************************************************************************)
(* Properties of the leaf traversal, the scale bar and the side panel.     *)
(***************************************************************************)
\* The trees of the renderer instances constructed so far.
InstanceTrees == {instances[i].tree : i \in DOMAIN instances}

\* The position of the node of key k in a list of node objects, 0 if absent.
PositionOf(t, leaves, k) ==
    IF \E i \in 1..Len(leaves) : leaves[i] = Trees[t][k]
    THEN CHOOSE i \in 1..Len(leaves) : leaves[i] = Trees[t][k]
    ELSE 0

\* The keys of the nodes at or below node k of tree t.
RECURSIVE KeysBelow(_, _)
KeysBelow(t, k) ==
    {k} \cup UNION {KeysBelow(t, Trees[t][k].children[i]) :
                        i \in 1..Len(Trees[t][k].children)}

\* C21: getDescendantLeaves(node) is [node] for a leaf and the concatenation
\* of its children's results, in child order, otherwise: every leaf below
\* the node exactly once, from left to right, no internal node, and nothing
\* for an internal node without children.
C21_DescendantLeavesInOrder ==
    \A t \in InstanceTrees : \A k \in DOMAIN Trees[t] :
        LET node == Trees[t][k]
            leaves == getDescendantLeaves(t, k)
        IN /\ node.isLeaf => leaves = <<node>>
           /\ ~node.isLeaf /\ node.children = <<>> => leaves = <<>>
           /\ \A i \in 1..Len(leaves) : leaves[i].isLeaf
           /\ Len(leaves) = Cardinality(LeafKeysBelow(t, k))
           /\ \A l \in LeafKeysBelow(t, k) :
                    Cardinality({i \in 1..Len(leaves) : leaves[i] = Trees[t][l]}) = 1
           /\ \A m \in KeysBelow(t, k) :
                \A i, j \in 1..Len(Trees[t][m].children) :
                    i < j =>
                        \A u \in LeafKeysBelow(t, Trees[t][m].children[i]),
                           v \in LeafKeysBelow(t, Trees[t][m].children[j]) :
                            PositionOf(t, leaves, u) < PositionOf(t, leaves, v)

\* The tooltip of T3's root counts five leaves, and an instance of T3, which
\* has an internal node without children, is on screen.
C21_Witness ==
    /\ "T3" \in InstanceTrees
    /\ nodeTooltip.node # NoNode
    /\ nodeTooltip.node.key = "r"
    /\ nodeTooltip.descendantCount = 5
    /\ getDescendantLeaves("T3", "h") = <<>>

\* v scaled by powers of ten into [1, 10)
RECURSIVE Mantissa(_)
Mantissa(v) ==
    IF LessOrEqual(Num(10, 1), v) THEN Mantissa(Times(v, Num(1, 10)))
    ELSE IF ~LessOrEqual(Num(1, 1), v) THEN Mantissa(Times(v, Num(10, 1)))
    ELSE v

\* v is 1, 2 or 5 times a power of ten (10 times a power of ten is one).
IsNice(v) == IsPositive(v) /\ Mantissa(v) \in {Num(1, 1), Num(2, 1), Num(5, 1)}

\* The next smaller such number.
PreviousNice(v) ==
    IF Mantissa(v) = Num(1, 1) THEN Times(v, Num(1, 2))
    ELSE IF Mantissa(v) = Num(2, 1) THEN Times(v, Num(1, 2))
    ELSE Times(v, Num(2, 5))

\* The renderer answers with numbers (or lacks the method) and the branch
\* scale is positive.
PositiveReading(q) ==
    /\ q.branchScale.how \in {"absent", "number"}
    /\ q.zoom.how \in {"absent", "number"}
    /\ q.branchScale.how = "number" => q.branchScale.n > 0

\* A step that runs calculateScaleBar() on an instance with the answers q.
ScaleBarRuns(q) == treeInstance # 0 /\ (ResumeTick(q) \/ ZoomOrPan(q))

\* C22: for a positive branch scale and any zoom the scale bar's value is
\* the smallest number of the form 1, 2, 5 or 10 times a power of ten that
\* is at least 100 / (branchScale * 2^zoom), and its length is that value
\* times branchScale * 2^zoom, at least 100 and below 250 pixels.
C22_NiceValueCoversTarget ==
    [][\A q \in Readings :
        ScaleBarRuns(q) /\ PositiveReading(q) =>
            LET currentScale == currentScaleOf(q)
                target == Times(Num(targetPixelLength, 1),
                                [currentScale EXCEPT !.n = currentScale.d,
                                                     !.d = currentScale.n])
            IN /\ IsNice(scaleBar'.value)
               /\ LessOrEqual(target, scaleBar'.value)
               /\ ~LessOrEqual(target, PreviousNice(scaleBar'.value))
               /\ scaleBar'.length = Times(scaleBar'.value, currentScale)
               /\ LessOrEqual(Num(100, 1), scaleBar'.length)
               /\ ~LessOrEqual(Num(250, 1), scaleBar'.length)]_vars

\* Branch scale 1 at zoom 0 gave value 100 and length 100; another answer
\* gave a value below one.
C22_Witness ==
    /\ treeInstance # 0
    /\ instances[treeInstance].styled
    /\ \/ scaleBar = [value |-> Num(100, 1), length |-> Num(100, 1)]
       \/ scaleBar = [value |-> Num(1, 20), length |-> Num(100, 1)]

\* C23: the scale bar's value and length are finite positive numbers in
\* every reachable state, whatever getBranchScale and getZoom answer.
C23_ScaleBarFinitePositive ==
    /\ IsPositive(scaleBar.value)
    /\ IsPositive(scaleBar.length)

RECURSIVE wrappedHashOf(_)
\* The recurrence with every step wrapped to a signed 32-bit integer.
wrappedHashOf(str) ==
    IF str = <<>> THEN [q |-> 0, a |-> 0, b |-> 0]
    ELSE hashStepWrapped(wrappedHashOf(SubSeq(str, 1, Len(str) - 1)),
                         charCodeAt(str[Len(str)]))

\* C24: the hash generateColor computes is a 32-bit signed integer, equal
\* to the recurrence with wrap-around modulo 2^32, and the hue of every
\* colour in the map is that hash modulo 360, at saturation 100 and
\* lightness 75.
C24_HashIsSigned32Bit ==
    \A i \in 1..Len(props.colorMap) :
        LET entry == props.colorMap[i]
        IN panel.selectedField # "" =>
            /\ hashOf(entry.value).q = 0
            /\ hashOf(entry.value) = wrappedHashOf(entry.value)
            /\ entry.color.hue = Remainder360(wrappedHashOf(entry.value))
            /\ entry.color.saturation = 100
            /\ entry.color.lightness = 75

\* C25: every time the selected field changes the map handed to the app has
\* one entry per distinct non-empty value of the field among the records,
\* in first-seen order, coloured by the value alone; no field, empty map.
C25_MapInFirstSeenOrder ==
    [][panel'.selectedField # panel.selectedField =>
        props'.colorMap =
            IF panel'.selectedField = "" THEN <<>>
            ELSE InsertColors(props'.metadata, panel'.selectedField, <<>>)]_vars

\* C30: a label field the user unchecked is not selected until the user
\* checks it again.
C30_UncheckedStaysUnchecked ==
    \A f \in panel.unchecked :
        \A i \in 1..Len(panel.selectedLabelFields) : panel.selectedLabelFields[i] # f


(***************************************************************************)
(* Properties of the preloader and of the tree builder's input.            *)
(***************************************************************************)
ReadyServices == {i \in 1..Len(services) : services[i].state = "ready"}
ResolvedCalls == {c \in 1..Len(calls) : calls[c].at = "resolved"}

\* Call c left the await of getBiowasmInstance in this step: a call that was
\* waiting, or a new call that did not have to wait.
LeavesAwait(c) ==
    /\ c \in 1..Len(calls')
    /\ calls'[c].at # "waiting"
    /\ (c \in 1..Len(calls) => calls[c].at = "waiting")

\* C26: at most one initialisation of Biowasm completes successfully, the
\* preload runs once however often preloadAll is called, and every
\* getBiowasmInstance call that resolves returns the same instance.
C26_BiowasmLoadedOnce ==
    /\ Cardinality(ReadyServices) <= 1
    /\ preloader.runs <= 1
    /\ \A c, d \in ResolvedCalls : calls[c].instance = calls[d].instance

BeforeFirstBar(s) ==
    IF \E i \in 1..Len(s) : s[i] = Bar
    THEN SubSeq(s, 1, (CHOOSE i \in 1..Len(s) :
                            s[i] = Bar /\ \A j \in 1..(i - 1) : s[j] # Bar) - 1)
    ELSE s

\* C29: the text mounted for the tree builder has the lines of the FASTA
\* content in number and order, every line that starts with '>' reduced to
\* '>' and the text before its first '|', every other line unchanged;
\* stripping it again changes nothing.
C29_BuilderGetsStrippedFasta ==
    \A b \in 1..Len(builds) :
        LET raw == SplitLines(builds[b].fasta)
            out == SplitLines(builds[b].text)
        IN /\ Len(out) = Len(raw)
           /\ \A i \in 1..Len(raw) :
                IF Len(raw[i]) > 0 /\ raw[i][1] = ">"
                THEN out[i] = <<">">> \o BeforeFirstBar(Tail(raw[i]))
                ELSE out[i] = raw[i]
           /\ stripFastaHeaders(builds[b].text) = builds[b].text

\* A FASTA text whose headers carry a '|' was mounted, shorter than the raw
\* content.
C29_Witness ==
    \E b \in 1..Len(builds) :
        /\ \E i \in 1..Len(builds[b].fasta) : builds[b].fasta[i] = Bar
        /\ Len(builds[b].text) < Len(builds[b].fasta)

(***************************************************************************)
(* Properties of the side panel's selections.                              *)
(***************************************************************************)
\* The places of a field in a selection.
PlacesOf(selection, field) == {i \in 1..Len(selection) : selection[i] = field}

\* C31: a label-field toggle keeps insertion order.  Checking a field that is
\* not selected appends it at the end, checking a selected field changes
\* nothing, unchecking takes out that field's place and leaves the others in
\* their order, and the list the app stores equals the new selection.
C31_ToggleKeepsInsertionOrder ==
    [][\A field \in {"SampleID", "Country", "Year"}, checked \in BOOLEAN :
        ToggleLabelField(field, checked) =>
            LET old == panel.selectedLabelFields
                new == panel'.selectedLabelFields
                places == PlacesOf(old, field)
            IN /\ props'.labelFields = new
               /\ Cardinality(places) <= 1
               /\ checked /\ places = {} => new = old \o <<field>>
               /\ checked /\ places # {} => new = old
               /\ ~checked /\ places = {} => new = old
               /\ ~checked /\ places # {} =>
                    \E i \in places :
                        new = SubSeq(old, 1, i - 1) \o SubSeq(old, i + 1, Len(old))]_vars

\* Year and then Country were checked after SampleID, which was unchecked
\* since: the two are left in the order they were checked in.
C31_Witness ==
    /\ panel.selectedLabelFields = <<"Year", "Country">>
    /\ props.labelFields = <<"Year", "Country">>
    /\ "SampleID" \in panel.unchecked

\* map is the colour map of field over metadata: empty for no field, else
\* one entry, coloured by the value alone, for every distinct non-empty value
\* of the field among the records and no other entry.
IsColorMapOf(map, metadata, field) ==
    IF field = "" THEN map = <<>>
    ELSE /\ \A i \in 1..Len(metadata) :
                Truthy(metadata[i], field) =>
                    \E e \in 1..Len(map) : map[e].value = metadata[i][field]
         /\ \A e \in 1..Len(map) :
                /\ map[e].color = generateColor(map[e].value)
                /\ \E i \in 1..Len(metadata) :
                        Truthy(metadata[i], field) /\ metadata[i][field] = map[e].value
                /\ \A d \in 1..Len(map) : map[d].value = map[e].value => d = e

\* C32: after any metadata loads and field selections the colour map the app
\* holds is the colour map of the selected field over the current metadata,
\* and a metadata change that takes the selected field out of the columns
\* resets the selection to none and empties the map.
C32_ColorMapFollowsMetadata ==
    /\ [](/\ props.selectedField = panel.selectedField
          /\ IsColorMapOf(props.colorMap, props.metadata, props.selectedField))
    /\ [][props'.metadata # props.metadata
            /\ panel.selectedField \notin metadataFields(props'.metadata)
          => panel'.selectedField = "" /\ props'.colorMap = <<>>]_vars

(***************************************************************************)
(* Properties of the renderer instances.                                   *)
(***************************************************************************)
\* The renderer instances constructed and not destroyed.
LiveInstances == {i \in 1..Len(instances) : ~instances[i].destroyed}

\* C33: at most one renderer instance is live at any time: an instance that
\* was constructed and is not the one the component holds has been
\* destroyed, and the instance held is the one constructed last.
C33_OneLiveRenderer ==
    /\ Cardinality(LiveInstances) <= 1
    /\ \A i \in LiveInstances : i = treeInstance
    /\ treeInstance # 0 => treeInstance = Len(instances)

(***************************************************************************)
(* Properties of the tooltip's states.                                     *)
(***************************************************************************)
\* C36: a dragging tooltip is visible, a tooltip that is not dragging has
\* the drag offset (0, 0), and a drag begins only by a pointer-down on the
\* header of a visible tooltip.
C36_DraggingIsVisible ==
    /\ [](nodeTooltip.isDragging => nodeTooltip.visible)
    /\ [](~nodeTooltip.isDragging =>
            nodeTooltip.dragOffsetX = 0 /\ nodeTooltip.dragOffsetY = 0)
    /\ [][~nodeTooltip.isDragging /\ nodeTooltip'.isDragging =>
            /\ nodeTooltip.visible
            /\ \E p \in PointerPositions : StartDrag(p)]_vars

\* A drag was ended by hiding the tooltip with the pointer still down, and
\* the listeners on document are still registered.
C36_Witness ==
    /\ ~nodeTooltip.visible
    /\ ~nodeTooltip.isDragging
    /\ listening

(***************************************************************************)
(* Properties of the zoom and pan handlers.                                *)
(***************************************************************************)
\* C38: every zoom or pan event of the instance held recomputes the scale
\* bar, and exactly once, however often the styles of the instance were
\* recomputed: an instance has one zoom handler and one pan handler.
C38_OneRecomputationPerEvent ==
    /\ [](\A i \in 1..Len(instances) :
            instances[i].styled => instances[i].handlers = 1)
    /\ [][\A q \in Readings : ZoomOrPan(q) => page'.zoomRuns = 1]_vars

(***************************************************************************)
(* Properties of the tree calculation.                                     *)
(***************************************************************************)
\* The runs of calculateTree of the PhyloTree component on the page.
RunsHere == {c \in 1..Len(page.runs) : page.runs[c].component = page.phyloTree}

\* C34: when the FASTA content changed while a calculation was in flight,
\* then, once no calculation is in flight and the calculation of the latest
\* content has emitted its tree, the tree the app holds was built from the
\* latest content.
C34_LastTreeIsOfLatestFasta ==
    (/\ page.phyloTree # 0
     /\ \A c \in 1..Len(page.runs) : ~InFlight(page.runs[c])
     /\ Len(page.runs) \in RunsHere
     /\ page.runs[Len(page.runs)].step = "emitted")
    => page.newickTree = stripFastaHeaders(page.fastaContent)

\* C35: isLoading is true exactly while a calculation of the component is in
\* flight, and a calculation that fails records an error and emits no tree.
C35_LoadingWhileInFlight ==
    /\ [](page.phyloTree # 0 =>
            (page.isLoading <=> \E c \in RunsHere : InFlight(page.runs[c])))
    /\ [][\A c \in RunsHere :
            (/\ c \in DOMAIN page'.runs
             /\ InFlight(page.runs[c])
             /\ page'.runs[c].step = "failed"
             /\ page'.phyloTree = page.phyloTree)
            => page'.treeError # "" /\ page'.newickTree = page.newickTree]_vars


(***************************************************************************)
(* Properties of the loading of the renderer library.                      *)
(***************************************************************************)
PhylocanvasTags ==
    {k \in 1..Len(page.scripts) : includes(page.scripts[k].src, <<"phylocanvas">>)}

IsSettled(r) ==
    r \in DOMAIN page.requests /\ page.requests[r].at \in {"resolved", "rejected"}

\* What request r was rejected for holds in the document.
RejectedFor(pg, r) ==
    \/ /\ pg.requests[r].cause = "error"
       /\ \E k \in 1..Len(pg.scripts) :
            pg.scripts[k].request = r /\ pg.scripts[k].state = "failed"
    \/ /\ pg.requests[r].cause = "absent"
       /\ ~pg.library
       /\ \E k \in 1..Len(pg.scripts) :
            pg.scripts[k].request = r /\ pg.scripts[k].state = "loaded"
    \/ /\ pg.requests[r].cause = "timeout"
       /\ pg.requests[r].how = "poll"

\* C37: whatever the order of the preloader's load and the viewer's loads,
\* the document never holds more than one PhylocanvasGL script tag; every
\* load request made is settled in the end; a request is resolved only when
\* the library global is there, and rejected only for a script error, for
\* the library missing after the script loaded, or for the timeout of a
\* request that polls.
C37_OneScriptTagAndLoadsSettle ==
    /\ [](Cardinality(PhylocanvasTags) <= 1 /\ Len(page.scripts) <= 1)
    /\ \A r \in 1..MaxRequests : (r \in DOMAIN page.requests) ~> IsSettled(r)
    /\ [][\A r \in DOMAIN page'.requests :
            IF r \in DOMAIN page.requests /\ page.requests[r].at = page'.requests[r].at
            THEN TRUE
            ELSE /\ page'.requests[r].at = "resolved" => page'.library
                 /\ page'.requests[r].at = "rejected" => RejectedFor(page', r)]_vars

\* The viewer and the preloader both asked for the library before it was
\* there: one appended the script, the other polled, and both requests are
\* settled.
C37_Witness ==
    /\ Len(page.scripts) = 1
    /\ \E a, b \in DOMAIN page.requests :
        /\ page.requests[a].by = "viewer"
        /\ page.requests[b].by = "preloader"
        /\ {page.requests[a].how, page.requests[b].how} = {"script", "poll"}
        /\ IsSettled(a)
        /\ IsSettled(b)


(***************************************************************************)
(* Properties of the preloading overlay.                                   *)
(***************************************************************************)
PreloadsSettled ==
    /\ preloader.biowasm \in {"loaded", "failed", "skipped"}
    /\ preloader.phylocanvas \in {"fulfilled", "rejected"}
    /\ preloader.loadingPromise \in {"fulfilled", "rejected"}

\* C39: when every load of the preloader resolves or rejects, isPreloading
\* is true at start-up and false in the end; it is set to false once only,
\* in a step taken after preloadAll and both of its loads have settled,
\* whatever they loaded, and it is never true again.
C39_OverlayGoesOnce ==
    /\ page.isPreloading
    /\ <>(~page.isPreloading)
    /\ [](page.hides <= 1 /\ (page.isPreloading <=> page.hides = 0))
    /\ [][page'.isPreloading # page.isPreloading
            => page.isPreloading /\ PreloadsSettled /\ page'.hides = page.hides + 1]_vars
    /\ [][~page.isPreloading => ~page'.isPreloading]_vars

\* The overlay has gone although neither dependency was preloaded.
C39_Witness ==
    /\ ~page.isPreloading
    /\ page.hides = 1
    /\ preloader.biowasm = "failed"
    /\ preloader.phylocanvas = "rejected"
    /\ page.debugInfo = NonePreloaded

=============================================================================
